---------------------------- MODULE Spec2Model ----------------------------
(***************************************************************************)
(* The authorization state machine and token lifecycle of the SCP demo     *)
(* server: initAuthorization, pollAuthorization, confirmAuthorization,     *)
(* exchangeCodeForTokens, refreshAccessToken and revokeToken, run by       *)
(* independent invocations that share only the two KV namespaces           *)
(* (AUTH_REQUESTS, MAGIC_LINK_TOKENS) and the two D1 tables (auth_codes,   *)
(* refresh_tokens).  One action is one store operation of a handler         *)
(* together with the local computation that follows it, so invocations     *)
(* interleave exactly where the code awaits a store.                        *)
(*                                                                         *)
(* Time is counted in units of five minutes (300 000 ms): every duration   *)
(* the handlers use is a multiple of it.  Identifiers produced by          *)
(* generateId / generateRefreshToken are random 128/256-bit values; they   *)
(* are modelled as fresh values (successive integers).                      *)
(***************************************************************************)
EXTENDS Integers, Sequences, FiniteSets, TLC

(***************************************************************************)
(* Bounds of the model.                                                    *)
(***************************************************************************)
NumProcs == 2      \* invocations that may be in flight at the same time
MaxInits == 1      \* initAuthorization calls
MaxIds == 4        \* values generateId may hand out
MaxTokens == 3     \* values generateRefreshToken may hand out
MaxTime == 3       \* last clock value (units of five minutes) the clock ticks to
MaxClock == 15     \* last clock value an hour's wait may lead to
MaxLog == 3        \* activities the intent logs may hold
MaxGrantClock == 8644 \* last clock value a wait of thirty days may lead to

(***************************************************************************)
(* Program constants, in units of five minutes.                            *)
(***************************************************************************)
AuthRequestTtl == 2     \* now + (10 * 60 * 1000)
KvExpirationTtl == 2    \* { expirationTtl: 600 }
AuthCodeTtl == 1        \* Date.now() + (5 * 60 * 1000)
RefreshTokenTtl == 8640 \* Date.now() + (30 * 24 * 60 * 60 * 1000)
AccessTokenTtl == 12    \* exp = iat + 3600

Procs == 1..NumProcs

\* customer_id: null as any
NULL == -1

\* env.JWT_SECRET
JWT_SECRET == "S1"

(***************************************************************************)
(* Inputs.  An email is its sequence of character codes, so that            *)
(* includes('@') and hashEmail are computed, not assumed.                   *)
(***************************************************************************)
AtSign == 64

Clients == { "c1", "c2" }

Verifiers == { "v1", "v2" }

VARIABLES
  now,                \* Date.now()
  AUTH_REQUESTS,      \* KV namespace: auth request id -> entry
  MAGIC_LINK_TOKENS,  \* KV namespace: magic-link token -> entry
  auth_codes,         \* D1 table auth_codes, keyed by code
  refresh_tokens,     \* D1 table refresh_tokens, keyed by token
  nextId,             \* values handed out by generateId so far
  nextToken,          \* values handed out by generateRefreshToken so far
  MOCK_INTENTS,       \* in-memory Map: customer id -> activity log
  proc,               \* the invocations: position, arguments, locals, response
  hist                \* history of what the invocations did

vars == << now, AUTH_REQUESTS, MAGIC_LINK_TOKENS, auth_codes, refresh_tokens,
           nextId, nextToken, MOCK_INTENTS, proc, hist >>

stores == << AUTH_REQUESTS, MAGIC_LINK_TOKENS, auth_codes, refresh_tokens >>

(***************************************************************************)
(* Helpers: finite maps.                                                   *)
(***************************************************************************)
MapPut(m, k, v) == [x \in DOMAIN m \cup {k} |-> IF x = k THEN v ELSE m[x]]

MapDelete(m, k) == [x \in DOMAIN m \ {k} |-> m[x]]

EmptyMap == [x \in {} |-> 0]

\* obj.key = value on a parsed object (adds the key when it is undefined)
SetField(obj, key, value) == MapPut(obj, key, value)

(***************************************************************************)
(* KV namespace: put with expirationTtl, get, delete.  An entry may be     *)
(* evicted by the store at any time from its expiration on.                *)
(***************************************************************************)
KvPut(kv, key, value, ttl) == MapPut(kv, key, [value |-> value, expiration |-> now + ttl])

KvHas(kv, key) == key \in DOMAIN kv

KvGet(kv, key) == kv[key].value

KvDelete(kv, key) == MapDelete(kv, key)

(***************************************************************************)
(* JSON.stringify / JSON.parse of an array of strings (the scopes column), *)
(* as the sequence of tokens of the text, and Array.join(' ').             *)
(***************************************************************************)
RECURSIVE Interleave(_, _)
Interleave(a, sep) ==
  IF Len(a) = 0 THEN << >>
  ELSE IF Len(a) = 1 THEN a
  ELSE << Head(a), sep >> \o Interleave(Tail(a), sep)

JSONstringify(a) == << "[" >> \o Interleave(a, ",") \o << "]" >>

JSONparse(text) ==
  LET inner == SubSeq(text, 2, Len(text) - 1)
  IN  [i \in 1..((Len(inner) + 1) \div 2) |-> inner[2 * i - 1]]

Join(a) == Interleave(a, " ")

(***************************************************************************)
(* mock-data/customer: hashEmail, generateCustomerFromEmail, verifyEmail.  *)
(***************************************************************************)
Abs(x) == IF x < 0 THEN -x ELSE x

\* hash = ((hash << 5) - hash) + char; hash = hash & hash.  The truncation to
\* 32 bits leaves a hash below 2^31 as it is, which the hash of every email
\* of at most six characters is.
RECURSIVE hashFrom(_, _)
hashFrom(hash, chars) ==
  IF Len(chars) = 0 THEN hash
  ELSE hashFrom(((hash * 32) - hash) + Head(chars), Tail(chars))

hashEmail(email) == Abs(hashFrom(0, email))

\* customer_id `cust_${hash.toString(36)}`, represented by the hash
customerIdOf(email) == hashEmail(email)

includesAt(email) == \E i \in 1..Len(email) : email[i] = AtSign

verifyEmail(email) ==
  IF Len(email) = 0 \/ ~includesAt(email)
  THEN [exists |-> FALSE, customerId |-> NULL]
  ELSE [exists |-> TRUE, customerId |-> customerIdOf(email)]

(***************************************************************************)
(* oauth/jwt: base64url, HMAC signature, createJWT, generateAccessToken,   *)
(* verifyPKCE.  A digest or a signature is the term of what went into it.   *)
(***************************************************************************)
base64urlEncode(data) == << "b64", data >>

base64urlDecode(data) == data[2]

\* a signature that does not depend on the key
signUnkeyed(data, secret) == base64urlEncode(<< "hmac-sha256", data >>)

sign(data, secret) == base64urlEncode(<< "hmac-sha256", secret, data >>)

\* JSON.stringify of an object: the JSON text of it
objectText(value) == << "json", value >>

createJWT(payload, secret) ==
  LET encodedHeader == base64urlEncode(objectText([alg |-> "HS256", typ |-> "JWT"]))
      encodedPayload == base64urlEncode(objectText(payload))
  IN  << encodedHeader, encodedPayload,
         sign(<< encodedHeader, encodedPayload >>, secret) >>

\* the TokenPayload of an access token generated at iat
tokenPayload(contactId, email, scopes, iat) ==
  [sub |-> contactId, email |-> email, scopes |-> scopes,
   type |-> "access_token", iat |-> iat, exp |-> iat + AccessTokenTtl]

generateAccessToken(contactId, email, scopes, secret) ==
  createJWT(tokenPayload(contactId, email, scopes, now), secret)

\* base64url(SHA-256(verifier)) on the verifiers of the model
S256(codeVerifier) ==
  CASE codeVerifier = "v1" -> "h1"
    [] codeVerifier = "v2" -> "h2"

\* a comparison of the verifier itself with the challenge (the "plain" method,
\* which the server does not support)
plainPKCE(codeVerifier, codeChallenge) == codeVerifier = codeChallenge

\* computed = base64url(SHA-256(codeVerifier)); computed === codeChallenge
verifyPKCE(codeVerifier, codeChallenge) == S256(codeVerifier) = codeChallenge

generateId(n) == n + 1

generateRefreshToken(n) == n + 1


(***************************************************************************)
(* What an endpoint of index.ts answers: the handler's value, or the error *)
(* of its catch block with the thrown message as error_description (for    *)
(* the confirm page: its title and the message).                           *)
(***************************************************************************)
Returned(body) == [ok |-> TRUE, body |-> body]

Failed(error, message) == [ok |-> FALSE, error |-> error, error_description |-> message]

Ready(p) == proc[p].pc \in {"idle", "done"}

Done(op, args, response) == [pc |-> "done", op |-> op, args |-> args, response |-> response]

\* invocation p has been answered: with the handler's value, with an error
Succeeded(p, op) == proc[p].pc = "done" /\ proc[p].op = op /\ proc[p].response.ok

FailedWith(p, op, message) ==
  /\ proc[p].pc = "done" /\ proc[p].op = op /\ ~proc[p].response.ok
  /\ proc[p].response.error_description = message

(***************************************************************************)
(* Initial state: empty stores, no invocation in flight.                   *)
(***************************************************************************)
Init ==
  /\ now = 0
  /\ AUTH_REQUESTS = EmptyMap
  /\ MAGIC_LINK_TOKENS = EmptyMap
  /\ auth_codes = EmptyMap
  /\ refresh_tokens = EmptyMap
  /\ nextId = 0
  /\ nextToken = 0
  /\ MOCK_INTENTS = EmptyMap
  /\ proc = [p \in Procs |-> [pc |-> "idle"]]
  /\ hist = [initScopes |-> EmptyMap,   \* auth request id -> scopes given to init
             passed |-> EmptyMap,       \* auth request id -> confirms past the token
                                        \*   lookup (1, or 2 for two and more)
             codeRequest |-> EmptyMap,  \* code -> auth request id it was minted for
             confirmed |-> {},          \* <<magic token, auth request id>> of the
                                        \*   confirms that returned successfully
             redeemed |-> {},           \* codes of the exchanges that returned tokens
             issued |-> EmptyMap,       \* refresh token an exchange inserted -> code
             grant |-> EmptyMap]        \* refresh token handed out -> code of its grant

(***************************************************************************)
(* The clock, and the KV store evicting entries whose expiration has       *)
(* passed (at a time of its choosing).  The expiration of an entry counts  *)
(* from its put, which comes after the Date.now() its writer computed      *)
(* expires_at from, so an entry is still there at the clock value of its   *)
(* expiration and goes after it.                                           *)
(***************************************************************************)
Tick ==
  /\ now < MaxTime
  /\ now' = now + 1
  /\ UNCHANGED << stores, nextId, nextToken, proc, hist, MOCK_INTENTS >>

EvictAuthRequest ==
  \E key \in DOMAIN AUTH_REQUESTS :
    /\ AUTH_REQUESTS[key].expiration < now
    /\ AUTH_REQUESTS' = KvDelete(AUTH_REQUESTS, key)
    /\ UNCHANGED << now, MAGIC_LINK_TOKENS, auth_codes, refresh_tokens,
                    nextId, nextToken, proc, hist, MOCK_INTENTS >>

EvictMagicLinkToken ==
  \E key \in DOMAIN MAGIC_LINK_TOKENS :
    /\ MAGIC_LINK_TOKENS[key].expiration < now
    /\ MAGIC_LINK_TOKENS' = KvDelete(MAGIC_LINK_TOKENS, key)
    /\ UNCHANGED << now, AUTH_REQUESTS, auth_codes, refresh_tokens,
                    nextId, nextToken, proc, hist, MOCK_INTENTS >>

(***************************************************************************)
(* initAuthorization (POST /v1/authorize/init).                            *)
(***************************************************************************)
\* the requests callers send: a customer of the directory with an S256
\* challenge, the same customer with the verifier sent as the challenge, and
\* an email the directory does not verify
AuthRequests ==
  { [email |-> <<97, 64, 98>>, client_id |-> "c1", client_name |-> "agent",
     scopes |-> <<"orders", "loyalty">>, code_challenge |-> "h1"],
    [email |-> <<97, 64, 98>>, client_id |-> "c2", client_name |-> "agent",
     scopes |-> <<"orders">>, code_challenge |-> "v1"],
    [email |-> <<110, 111>>, client_id |-> "c1", client_name |-> "agent",
     scopes |-> <<"orders">>, code_challenge |-> "h1"] }

\* the AuthRequestStored written by init: pending, no customer_id, no code
authRequestData(authRequestId, request) ==
  [id |-> authRequestId, email |-> request.email, customer_id |-> NULL,
   client_id |-> request.client_id, client_name |-> request.client_name,
   scopes |-> request.scopes, code_challenge |-> request.code_challenge,
   status |-> "pending", created_at |-> now, expires_at |-> now + AuthRequestTtl]

\* generateId, then AUTH_REQUESTS.put(authRequestId, ...)
InitPutRequest(p, request) ==
  /\ Ready(p)
  /\ Cardinality(DOMAIN hist.initScopes) < MaxInits
  /\ nextId + 2 <= MaxIds
  /\ LET authRequestId == generateId(nextId) IN
       /\ AUTH_REQUESTS' = KvPut(AUTH_REQUESTS, authRequestId,
                                 authRequestData(authRequestId, request), KvExpirationTtl)
       /\ nextId' = authRequestId
       /\ proc' = [proc EXCEPT ![p] = [pc |-> "init_putToken", request |-> request,
                                       authRequestId |-> authRequestId]]
       /\ hist' = [hist EXCEPT !.initScopes = MapPut(@, authRequestId, request.scopes)]
  /\ UNCHANGED << now, MAGIC_LINK_TOKENS, auth_codes, refresh_tokens, nextToken, MOCK_INTENTS >>

initResponse(authRequestId) ==
  [auth_request_id |-> authRequestId, email_sent |-> TRUE, expires_in |-> 600,
   poll_interval |-> 2]

\* an init that asks the directory and answers customer_not_found
initOutcomeVerifying(request, authRequestId, sent) ==
  IF ~verifyEmail(request.email).exists
  THEN Failed("customer_not_found", "No account found for email")
  ELSE IF sent THEN Returned(initResponse(authRequestId))
  ELSE Failed("server_error", "Failed to send email")

\* what the endpoint answers: the handler's value, or server_error when
\* sendMagicLinkEmail threw (nothing the handler throws is customer_not_found)
initOutcome(request, authRequestId, sent) ==
  IF sent THEN Returned(initResponse(authRequestId))
  ELSE Failed("server_error", "Failed to send email")

\* generateId, MAGIC_LINK_TOKENS.put(magicToken, authRequestId), then
\* sendMagicLinkEmail, which returns or throws
InitPutToken(p, sent) ==
  /\ proc[p].pc = "init_putToken"
  /\ LET magicToken == generateId(nextId) IN
       /\ MAGIC_LINK_TOKENS' = KvPut(MAGIC_LINK_TOKENS, magicToken,
                                     proc[p].authRequestId, KvExpirationTtl)
       /\ nextId' = magicToken
       /\ proc' = [proc EXCEPT ![p] =
            Done("init", [request |-> proc[p].request, magicToken |-> magicToken],
                 initOutcome(proc[p].request, proc[p].authRequestId, sent))]
  /\ UNCHANGED << now, AUTH_REQUESTS, auth_codes, refresh_tokens, nextToken, hist, MOCK_INTENTS >>

(***************************************************************************)
(* pollAuthorization (GET /v1/authorize/poll): one AUTH_REQUESTS.get.      *)
(***************************************************************************)
\* a poll that answers a request once: expired after any answered poll of it
pollOnce(authRequestId, clientId) ==
  IF ~KvHas(AUTH_REQUESTS, authRequestId) THEN Returned([status |-> "expired"])
  ELSE IF \E p \in Procs : /\ proc[p].pc = "done" /\ proc[p].op = "poll"
                           /\ proc[p].args.authRequestId = authRequestId
    THEN Returned([status |-> "expired"])
  ELSE LET authRequest == KvGet(AUTH_REQUESTS, authRequestId) IN
    IF authRequest.client_id # clientId THEN Failed("server_error", "Invalid client_id")
    ELSE IF authRequest.expires_at < now THEN Returned([status |-> "expired"])
    ELSE IF authRequest.status = "authorized" /\ "code" \in DOMAIN authRequest
      THEN Returned([status |-> "authorized", code |-> authRequest.code])
    ELSE IF authRequest.status = "denied" THEN Returned([status |-> "denied"])
    ELSE Returned([status |-> "pending",
                   expires_in |-> (authRequest.expires_at - now) * 300])

\* a poll that answers with the status before it looks at the client_id
pollStatusBeforeClient(authRequestId, clientId) ==
  IF ~KvHas(AUTH_REQUESTS, authRequestId) THEN Returned([status |-> "expired"])
  ELSE LET authRequest == KvGet(AUTH_REQUESTS, authRequestId) IN
    IF authRequest.expires_at < now THEN Returned([status |-> "expired"])
    ELSE IF authRequest.status = "authorized" /\ "code" \in DOMAIN authRequest
      THEN Returned([status |-> "authorized", code |-> authRequest.code])
    ELSE IF authRequest.status = "denied" THEN Returned([status |-> "denied"])
    ELSE IF authRequest.client_id # clientId THEN Failed("server_error", "Invalid client_id")
    ELSE Returned([status |-> "pending",
                   expires_in |-> (authRequest.expires_at - now) * 300])

\* a poll that answers with the status before it looks at expires_at
pollStatusBeforeExpiry(authRequestId, clientId) ==
  IF ~KvHas(AUTH_REQUESTS, authRequestId) THEN Returned([status |-> "expired"])
  ELSE LET authRequest == KvGet(AUTH_REQUESTS, authRequestId) IN
    IF authRequest.client_id # clientId THEN Failed("server_error", "Invalid client_id")
    ELSE IF authRequest.status = "authorized" /\ "code" \in DOMAIN authRequest
      THEN Returned([status |-> "authorized", code |-> authRequest.code])
    ELSE IF authRequest.status = "denied" THEN Returned([status |-> "denied"])
    ELSE IF authRequest.expires_at < now THEN Returned([status |-> "expired"])
    ELSE Returned([status |-> "pending",
                   expires_in |-> (authRequest.expires_at - now) * 300])

\* a poll without the pending answer: whatever is not authorized is denied
pollDeniedUnlessAuthorized(authRequestId, clientId) ==
  IF ~KvHas(AUTH_REQUESTS, authRequestId) THEN Returned([status |-> "expired"])
  ELSE LET authRequest == KvGet(AUTH_REQUESTS, authRequestId) IN
    IF authRequest.client_id # clientId THEN Failed("server_error", "Invalid client_id")
    ELSE IF authRequest.expires_at < now THEN Returned([status |-> "expired"])
    ELSE IF authRequest.status = "authorized" /\ "code" \in DOMAIN authRequest
      THEN Returned([status |-> "authorized", code |-> authRequest.code])
    ELSE Returned([status |-> "denied"])

pollAuthorization(authRequestId, clientId) ==
  IF ~KvHas(AUTH_REQUESTS, authRequestId) THEN Returned([status |-> "expired"])
  ELSE LET authRequest == KvGet(AUTH_REQUESTS, authRequestId) IN
    IF authRequest.client_id # clientId THEN Failed("server_error", "Invalid client_id")
    ELSE IF authRequest.expires_at < now THEN Returned([status |-> "expired"])
    ELSE IF authRequest.status = "authorized" /\ "code" \in DOMAIN authRequest
      THEN Returned([status |-> "authorized", code |-> authRequest.code])
    ELSE IF authRequest.status = "denied" THEN Returned([status |-> "denied"])
    ELSE Returned([status |-> "pending",
                   expires_in |-> (authRequest.expires_at - now) * 300])

Poll(p, authRequestId, clientId) ==
  /\ Ready(p)
  /\ proc' = [proc EXCEPT ![p] =
       Done("poll", [authRequestId |-> authRequestId, clientId |-> clientId],
            pollAuthorization(authRequestId, clientId))]
  /\ UNCHANGED << now, stores, nextId, nextToken, hist, MOCK_INTENTS >>

(***************************************************************************)
(* confirmAuthorization (GET /v1/authorize/confirm), store operation by    *)
(* store operation.                                                        *)
(***************************************************************************)
\* MAGIC_LINK_TOKENS.get(magicToken)
ConfirmGetToken(p, magicToken) ==
  /\ Ready(p)
  /\ IF ~KvHas(MAGIC_LINK_TOKENS, magicToken)
     THEN /\ proc' = [proc EXCEPT ![p] =
                Done("confirm", [magicToken |-> magicToken],
                     Failed("Authorization Failed", "Invalid or expired magic link"))]
          /\ hist' = hist
     ELSE /\ proc' = [proc EXCEPT ![p] =
                [pc |-> "confirm_getRequest", magicToken |-> magicToken,
                 authRequestId |-> KvGet(MAGIC_LINK_TOKENS, magicToken)]]
          /\ hist' = [hist EXCEPT !.passed =
                        LET authRequestId == KvGet(MAGIC_LINK_TOKENS, magicToken)
                        IN  MapPut(@, authRequestId,
                                   IF authRequestId \in DOMAIN @ THEN 2 ELSE 1)]
  /\ UNCHANGED << now, stores, nextId, nextToken, MOCK_INTENTS >>

\* AUTH_REQUESTS.get(authRequestId), JSON.parse
ConfirmGetRequest(p) ==
  /\ proc[p].pc = "confirm_getRequest"
  /\ IF ~KvHas(AUTH_REQUESTS, proc[p].authRequestId)
     THEN proc' = [proc EXCEPT ![p] =
            Done("confirm", [magicToken |-> proc[p].magicToken],
                 Failed("Authorization Failed", "Authorization request expired"))]
     ELSE proc' = [proc EXCEPT ![p] =
            [pc |-> "confirm_verify", magicToken |-> proc[p].magicToken,
             authRequestId |-> proc[p].authRequestId,
             authRequest |-> KvGet(AUTH_REQUESTS, proc[p].authRequestId)]]
  /\ UNCHANGED << now, stores, nextId, nextToken, hist, MOCK_INTENTS >>

\* a denial that leaves the request as it was read
deniedLeftAsRead(authRequest) == authRequest

\* authRequest.status = 'denied'
deniedRequest(authRequest) == SetField(authRequest, "status", "denied")

\* verifyEmail(authRequest.email): it throws, or answers; on an answer that
\* verifies the customer, generateId
ConfirmVerify(p, threw) ==
  /\ proc[p].pc = "confirm_verify"
  /\ LET verification == verifyEmail(proc[p].authRequest.email) IN
       IF threw \/ ~verification.exists \/ verification.customerId = NULL
       THEN /\ proc' = [proc EXCEPT ![p] =
                  [pc |-> "confirm_putDenied", magicToken |-> proc[p].magicToken,
                   authRequestId |-> proc[p].authRequestId,
                   authRequest |-> deniedRequest(proc[p].authRequest)]]
            /\ nextId' = nextId
       ELSE /\ nextId < MaxIds
            /\ proc' = [proc EXCEPT ![p] =
                  [pc |-> "confirm_insertCode", magicToken |-> proc[p].magicToken,
                   authRequestId |-> proc[p].authRequestId,
                   authRequest |-> proc[p].authRequest,
                   verification |-> verification,
                   authCode |-> generateId(nextId)]]
            /\ nextId' = generateId(nextId)
  /\ UNCHANGED << now, stores, nextToken, hist, MOCK_INTENTS >>

\* AUTH_REQUESTS.put of the denied request, then throw
ConfirmPutDenied(p) ==
  /\ proc[p].pc = "confirm_putDenied"
  /\ AUTH_REQUESTS' = KvPut(AUTH_REQUESTS, proc[p].authRequestId, proc[p].authRequest,
                            KvExpirationTtl)
  /\ proc' = [proc EXCEPT ![p] =
       Done("confirm", [magicToken |-> proc[p].magicToken],
            Failed("Authorization Failed", "Customer not found in merchant system"))]
  /\ UNCHANGED << now, MAGIC_LINK_TOKENS, auth_codes, refresh_tokens,
                  nextId, nextToken, hist, MOCK_INTENTS >>

\* the row of INSERT INTO auth_codes (used takes its DEFAULT 0)
authCodeRow(authCode, authRequest, verification) ==
  [code |-> authCode, customer_email |-> authRequest.email,
   cordial_contact_id |-> verification.customerId,
   client_id |-> authRequest.client_id,
   scopes |-> JSONstringify(authRequest.scopes),
   code_challenge |-> authRequest.code_challenge,
   expires_at |-> now + AuthCodeTtl, used |-> 0, created_at |-> now]

\* a confirm that goes on to the put without the INSERT
ConfirmSkipInsertCode(p) ==
  /\ proc[p].pc = "confirm_insertCode"
  /\ proc' = [proc EXCEPT ![p].pc = "confirm_putAuthorized"]
  /\ hist' = [hist EXCEPT !.codeRequest = MapPut(@, proc[p].authCode, proc[p].authRequestId)]
  /\ UNCHANGED << now, stores, nextId, nextToken, MOCK_INTENTS >>

ConfirmInsertCode(p) ==
  /\ proc[p].pc = "confirm_insertCode"
  /\ auth_codes' = MapPut(auth_codes, proc[p].authCode,
                          authCodeRow(proc[p].authCode, proc[p].authRequest,
                                      proc[p].verification))
  /\ proc' = [proc EXCEPT ![p].pc = "confirm_putAuthorized"]
  /\ hist' = [hist EXCEPT !.codeRequest = MapPut(@, proc[p].authCode, proc[p].authRequestId)]
  /\ UNCHANGED << now, AUTH_REQUESTS, MAGIC_LINK_TOKENS, refresh_tokens,
                  nextId, nextToken, MOCK_INTENTS >>

\* an authorized request that keeps the customer_id init stored (none)
authorizedWithoutCustomer(authRequest, authCode, verification) ==
  SetField(SetField(authRequest, "status", "authorized"), "code", authCode)

\* authRequest.status / code / customer_id, as assigned before the put
authorizedRequest(authRequest, authCode, verification) ==
  SetField(SetField(SetField(authRequest, "status", "authorized"),
                    "code", authCode),
           "customer_id", verification.customerId)

ConfirmPutAuthorized(p) ==
  /\ proc[p].pc = "confirm_putAuthorized"
  /\ AUTH_REQUESTS' = KvPut(AUTH_REQUESTS, proc[p].authRequestId,
                            authorizedRequest(proc[p].authRequest, proc[p].authCode,
                                              proc[p].verification),
                            KvExpirationTtl)
  /\ proc' = [proc EXCEPT ![p].pc = "confirm_deleteToken"]
  /\ UNCHANGED << now, MAGIC_LINK_TOKENS, auth_codes, refresh_tokens,
                  nextId, nextToken, hist, MOCK_INTENTS >>

\* a confirm that leaves the magic link in place
keepMagicLink(tokens, magicToken) == tokens

\* MAGIC_LINK_TOKENS.delete(magicToken), the last statement of a successful confirm
deleteMagicLink(tokens, magicToken) == KvDelete(tokens, magicToken)

ConfirmDeleteToken(p) ==
  /\ proc[p].pc = "confirm_deleteToken"
  /\ MAGIC_LINK_TOKENS' = deleteMagicLink(MAGIC_LINK_TOKENS, proc[p].magicToken)
  /\ proc' = [proc EXCEPT ![p] =
       Done("confirm", [magicToken |-> proc[p].magicToken, authCode |-> proc[p].authCode,
                        authRequestId |-> proc[p].authRequestId],
            Returned("Authorization Successful"))]
  /\ hist' = [hist EXCEPT !.confirmed =
                @ \cup {<< proc[p].magicToken, proc[p].authRequestId >>}]
  /\ UNCHANGED << now, AUTH_REQUESTS, auth_codes, refresh_tokens, nextId, nextToken, MOCK_INTENTS >>

(***************************************************************************)
(* exchangeCodeForTokens (POST /v1/token, grant_type authorization_code).  *)
(* Whatever the handler throws, the endpoint answers invalid_grant.        *)
(***************************************************************************)
\* a select that does not look at used
selectCode(code) == code \in DOMAIN auth_codes

\* SELECT * FROM auth_codes WHERE code = ? AND used = 0
selectUnusedCode(code) == code \in DOMAIN auth_codes /\ auth_codes[code].used = 0

\* the throw of the validation that fails first, "" when all pass
exchangeValidation(code, codeVerifier, clientId) ==
  IF ~selectUnusedCode(code) THEN "Invalid or used authorization code"
  ELSE IF auth_codes[code].expires_at < now THEN "Authorization code expired"
  ELSE IF auth_codes[code].client_id # clientId THEN "Invalid client_id"
  ELSE IF ~verifyPKCE(codeVerifier, auth_codes[code].code_challenge)
    THEN "Invalid code_verifier"
  ELSE ""

\* an exchange that writes used = 1 as it reads the row, before it validates
ExchangeSelectMarking(p, code, codeVerifier, clientId) ==
  /\ Ready(p)
  /\ LET thrown == exchangeValidation(code, codeVerifier, clientId) IN
       IF thrown # ""
       THEN proc' = [proc EXCEPT ![p] =
              Done("exchange", [code |-> code], Failed("invalid_grant", thrown))]
       ELSE proc' = [proc EXCEPT ![p] =
              [pc |-> "exchange_markUsed", code |-> code, clientId |-> clientId,
               codeVerifier |-> codeVerifier, result |-> auth_codes[code]]]
  /\ auth_codes' = [c \in DOMAIN auth_codes |->
                     IF c = code THEN [auth_codes[c] EXCEPT !.used = 1]
                     ELSE auth_codes[c]]
  /\ UNCHANGED << now, AUTH_REQUESTS, MAGIC_LINK_TOKENS, refresh_tokens,
                  nextId, nextToken, hist, MOCK_INTENTS >>

ExchangeSelect(p, code, codeVerifier, clientId) ==
  /\ Ready(p)
  /\ LET thrown == exchangeValidation(code, codeVerifier, clientId) IN
       IF thrown # ""
       THEN proc' = [proc EXCEPT ![p] =
              Done("exchange", [code |-> code], Failed("invalid_grant", thrown))]
       ELSE proc' = [proc EXCEPT ![p] =
              [pc |-> "exchange_markUsed", code |-> code, clientId |-> clientId,
               codeVerifier |-> codeVerifier, result |-> auth_codes[code]]]
  /\ UNCHANGED << now, stores, nextId, nextToken, hist, MOCK_INTENTS >>

\* an exchange that leaves the code unused
leaveCodeUnused(codes, code) == codes

\* UPDATE auth_codes SET used = 1 WHERE code = ?
markCodeUsed(codes, code) ==
  [c \in DOMAIN codes |-> IF c = code THEN [codes[c] EXCEPT !.used = 1] ELSE codes[c]]

\* the UPDATE, then generateAccessToken and generateRefreshToken
ExchangeMarkUsed(p) ==
  /\ proc[p].pc = "exchange_markUsed"
  /\ nextToken < MaxTokens
  /\ auth_codes' = markCodeUsed(auth_codes, proc[p].code)
  /\ nextToken' = generateRefreshToken(nextToken)
  /\ LET result == proc[p].result IN
       proc' = [proc EXCEPT ![p] =
         [pc |-> "exchange_insertToken", code |-> proc[p].code,
          clientId |-> proc[p].clientId, result |-> result,
          accessToken |-> generateAccessToken(result.cordial_contact_id,
                                              result.customer_email,
                                              JSONparse(result.scopes), JWT_SECRET),
          refreshToken |-> generateRefreshToken(nextToken)]]
  /\ UNCHANGED << now, AUTH_REQUESTS, MAGIC_LINK_TOKENS, refresh_tokens, nextId, hist, MOCK_INTENTS >>

\* the row of INSERT INTO refresh_tokens (last_used stays NULL)
refreshTokenRow(refreshToken, result, clientId) ==
  [token |-> refreshToken, customer_email |-> result.customer_email,
   cordial_contact_id |-> result.cordial_contact_id, client_id |-> clientId,
   scopes |-> result.scopes, expires_at |-> now + RefreshTokenTtl,
   created_at |-> now, last_used |-> NULL]

exchangeResponse(accessToken, refreshToken, result) ==
  [access_token |-> accessToken, refresh_token |-> refreshToken,
   token_type |-> "Bearer", expires_in |-> 3600,
   scope |-> Join(JSONparse(result.scopes)),
   customer_id |-> result.cordial_contact_id, email |-> result.customer_email]

ExchangeInsertToken(p) ==
  /\ proc[p].pc = "exchange_insertToken"
  /\ refresh_tokens' = MapPut(refresh_tokens, proc[p].refreshToken,
                              refreshTokenRow(proc[p].refreshToken, proc[p].result,
                                              proc[p].clientId))
  /\ proc' = [proc EXCEPT ![p] =
       Done("exchange", [code |-> proc[p].code],
            Returned(exchangeResponse(proc[p].accessToken, proc[p].refreshToken,
                                      proc[p].result)))]
  /\ hist' = [hist EXCEPT !.redeemed = @ \cup {proc[p].code},
                          !.issued = MapPut(@, proc[p].refreshToken, proc[p].code),
                          !.grant = MapPut(@, proc[p].refreshToken, proc[p].code)]
  /\ UNCHANGED << now, AUTH_REQUESTS, MAGIC_LINK_TOKENS, auth_codes, nextId, nextToken, MOCK_INTENTS >>

(***************************************************************************)
(* refreshAccessToken (POST /v1/token, grant_type refresh_token).          *)
(***************************************************************************)
\* the throw of the validation that fails first, "" when all pass
refreshValidation(refreshToken, clientId) ==
  IF refreshToken \notin DOMAIN refresh_tokens THEN "Invalid refresh token"
  ELSE IF refresh_tokens[refreshToken].expires_at < now THEN "Refresh token expired"
  ELSE IF refresh_tokens[refreshToken].client_id # clientId THEN "Invalid client_id"
  ELSE ""

\* SELECT * FROM refresh_tokens WHERE token = ?, the checks, then
\* generateAccessToken and generateRefreshToken
RefreshSelect(p, refreshToken, clientId) ==
  /\ Ready(p)
  /\ LET thrown == refreshValidation(refreshToken, clientId) IN
       IF thrown # ""
       THEN /\ proc' = [proc EXCEPT ![p] =
                 Done("refresh", [refreshToken |-> refreshToken],
                      Failed("invalid_grant", thrown))]
            /\ UNCHANGED << nextToken, hist >>
       ELSE /\ nextToken < MaxTokens
            /\ nextToken' = generateRefreshToken(nextToken)
            /\ LET result == refresh_tokens[refreshToken] IN
                 proc' = [proc EXCEPT ![p] =
                   [pc |-> "refresh_update", refreshToken |-> refreshToken,
                    result |-> result,
                    newAccessToken |-> generateAccessToken(result.cordial_contact_id,
                                                           result.customer_email,
                                                           JSONparse(result.scopes),
                                                           JWT_SECRET),
                    newRefreshToken |-> generateRefreshToken(nextToken)]]
            /\ hist' = [hist EXCEPT !.grant =
                          MapPut(@, generateRefreshToken(nextToken), @[refreshToken])]
  /\ UNCHANGED << now, stores, nextId, MOCK_INTENTS >>

\* the rotation written as an insert of the new value beside the old one
rotateByInsert(tokens, newRefreshToken, lastUsed, refreshToken) ==
  IF refreshToken \notin DOMAIN tokens THEN tokens
  ELSE MapPut(tokens, newRefreshToken,
              [tokens[refreshToken] EXCEPT !.token = newRefreshToken,
                                           !.last_used = lastUsed])

\* a rotation that also sets expires_at thirty days from the refresh
rotateExtending(tokens, newRefreshToken, lastUsed, refreshToken) ==
  IF refreshToken \notin DOMAIN tokens THEN tokens
  ELSE MapPut(MapDelete(tokens, refreshToken), newRefreshToken,
              [tokens[refreshToken] EXCEPT !.token = newRefreshToken,
                                           !.last_used = lastUsed,
                                           !.expires_at = lastUsed + RefreshTokenTtl])

\* UPDATE refresh_tokens SET token = ?, last_used = ? WHERE token = ?
rotateRefreshToken(tokens, newRefreshToken, lastUsed, refreshToken) ==
  IF refreshToken \notin DOMAIN tokens THEN tokens
  ELSE MapPut(MapDelete(tokens, refreshToken), newRefreshToken,
              [tokens[refreshToken] EXCEPT !.token = newRefreshToken,
                                           !.last_used = lastUsed])

\* a response whose scope is the first scope of the row only
refreshResponseFirstScope(newAccessToken, newRefreshToken, result) ==
  [access_token |-> newAccessToken, refresh_token |-> newRefreshToken,
   token_type |-> "Bearer", expires_in |-> 3600,
   scope |-> Join(SubSeq(JSONparse(result.scopes), 1, 1))]

refreshResponse(newAccessToken, newRefreshToken, result) ==
  [access_token |-> newAccessToken, refresh_token |-> newRefreshToken,
   token_type |-> "Bearer", expires_in |-> 3600,
   scope |-> Join(JSONparse(result.scopes))]

RefreshUpdate(p) ==
  /\ proc[p].pc = "refresh_update"
  /\ refresh_tokens' = rotateRefreshToken(refresh_tokens, proc[p].newRefreshToken, now,
                                          proc[p].refreshToken)
  /\ proc' = [proc EXCEPT ![p] =
       Done("refresh", [refreshToken |-> proc[p].refreshToken],
            Returned(refreshResponse(proc[p].newAccessToken, proc[p].newRefreshToken,
                                     proc[p].result)))]
  /\ UNCHANGED << now, AUTH_REQUESTS, MAGIC_LINK_TOKENS, auth_codes, nextId, nextToken,
                  hist, MOCK_INTENTS >>

(***************************************************************************)
(* revokeToken (POST /v1/revoke).                                          *)
(***************************************************************************)
\* a revocation that deletes nothing
keepRefreshToken(tokens, token) == tokens

\* DELETE FROM refresh_tokens WHERE token = ?
deleteRefreshToken(tokens, token) == MapDelete(tokens, token)

Revoke(p, token) ==
  /\ Ready(p)
  /\ refresh_tokens' = deleteRefreshToken(refresh_tokens, token)
  /\ proc' = [proc EXCEPT ![p] =
       Done("revoke", [token |-> token], Returned([status |-> "revoked"]))]
  /\ UNCHANGED << now, AUTH_REQUESTS, MAGIC_LINK_TOKENS, auth_codes,
                  nextId, nextToken, hist, MOCK_INTENTS >>

(***************************************************************************)
(* rpc/handler and oauth/jwt: verifyJWT, routeMethod, checkScope,          *)
(* getErrorCode and handleRPCRequest (POST /v1/rpc).  A token is the       *)
(* sequence of its dot-separated parts; a thrown Error is its code (0 when *)
(* it has none) and its message.                                           *)
(***************************************************************************)
Thrown(code, message) == [ok |-> FALSE, code |-> code, message |-> message]

\* a verification that also wants a refresh token row of the customer
verifyJWTWithGrant(token, secret) ==
  IF Len(token) # 3 THEN Thrown(0, "Invalid JWT format")
  ELSE IF token[3] # sign(<< token[1], token[2] >>, secret)
    THEN Thrown(0, "Invalid JWT signature")
  ELSE LET payload == base64urlDecode(token[2])[2] IN
    IF payload.exp # 0 /\ payload.exp < now THEN Thrown(0, "JWT expired")
    ELSE IF \A t \in DOMAIN refresh_tokens : refresh_tokens[t].customer_email # payload.email
      THEN Thrown(0, "JWT expired")
    ELSE [ok |-> TRUE, payload |-> payload]

\* a verification that looks at exp before it looks at the signature
verifyJWTExpiryFirst(token, secret) ==
  IF Len(token) # 3 THEN Thrown(0, "Invalid JWT format")
  ELSE IF /\ base64urlDecode(token[2])[1] = "json"
          /\ "exp" \in DOMAIN base64urlDecode(token[2])[2]
          /\ base64urlDecode(token[2])[2].exp < now
    THEN Thrown(0, "JWT expired")
  ELSE IF token[3] # sign(<< token[1], token[2] >>, secret)
    THEN Thrown(0, "Invalid JWT signature")
  ELSE IF base64urlDecode(token[2])[1] # "json" THEN Thrown(0, "Unexpected token")
  ELSE [ok |-> TRUE, payload |-> base64urlDecode(token[2])[2]]

\* parts.length, the signature over header.payload, JSON.parse of the decoded
\* payload (a SyntaxError on a text that is not JSON), then payload.exp
verifyJWT(token, secret) ==
  IF Len(token) # 3 THEN Thrown(0, "Invalid JWT format")
  ELSE IF token[3] # sign(<< token[1], token[2] >>, secret)
    THEN Thrown(0, "Invalid JWT signature")
  ELSE LET text == base64urlDecode(token[2]) IN
    IF text[1] # "json" THEN Thrown(0, "Unexpected token")
    ELSE LET payload == text[2] IN
      IF "exp" \in DOMAIN payload /\ payload.exp # 0 /\ payload.exp < now
      THEN Thrown(0, "JWT expired")
      ELSE [ok |-> TRUE, payload |-> payload]

verifyAccessToken(token, secret) == verifyJWT(token, secret)

Methods ==
  {"scp.get_orders", "scp.get_loyalty", "scp.get_offers", "scp.get_preferences",
   "scp.create_intent", "scp.get_intents", "scp.update_intent", "scp.fulfill_intent"}

\* a table whose fulfill_intent case checks the scope of create_intent
RequiredScopeFulfillCreate(method) ==
  CASE method = "scp.get_orders" -> "orders"
    [] method = "scp.get_loyalty" -> "loyalty"
    [] method = "scp.get_offers" -> "offers"
    [] method = "scp.get_preferences" -> "preferences"
    [] method = "scp.create_intent" -> "intent:create"
    [] method = "scp.get_intents" -> "intent:read"
    [] method = "scp.update_intent" -> "intent:write"
    [] method = "scp.fulfill_intent" -> "intent:create"

\* the scope each case of the switch checks
RequiredScope(method) ==
  CASE method = "scp.get_orders" -> "orders"
    [] method = "scp.get_loyalty" -> "loyalty"
    [] method = "scp.get_offers" -> "offers"
    [] method = "scp.get_preferences" -> "preferences"
    [] method = "scp.create_intent" -> "intent:create"
    [] method = "scp.get_intents" -> "intent:read"
    [] method = "scp.update_intent" -> "intent:write"
    [] method = "scp.fulfill_intent" -> "intent:write"

\* a check that any granted scope passes
checkScopeAny(scopes, required) == Len(scopes) > 0

\* scopes.includes(required), else createError(-32001, ...)
checkScope(scopes, required) == \E i \in 1..Len(scopes) : scopes[i] = required

\* `Forbidden: missing scope '${required}'`
missingScopeMessage(required) ==
  CASE required = "orders" -> "Forbidden: missing scope 'orders'"
    [] required = "loyalty" -> "Forbidden: missing scope 'loyalty'"
    [] required = "offers" -> "Forbidden: missing scope 'offers'"
    [] required = "preferences" -> "Forbidden: missing scope 'preferences'"
    [] required = "intent:create" -> "Forbidden: missing scope 'intent:create'"
    [] required = "intent:read" -> "Forbidden: missing scope 'intent:read'"
    [] required = "intent:write" -> "Forbidden: missing scope 'intent:write'"

\* the error checkScope throws: createError(-32001, ...)
missingScope(required) == Thrown(-32001, missingScopeMessage(required))

\* the ids generateIntentId hands out, in order
GeneratedIntentIds ==
  << "intent_1", "intent_2", "intent_3", "intent_4", "intent_5", "intent_6" >>

\* MOCK_INTENTS.get(customerId) || []
getIntents(intents, customerId) ==
  IF customerId \in DOMAIN intents THEN intents[customerId] ELSE << >>

\* the activities of every customer's log
ActivityCount(intents) ==
  LET RECURSIVE Sum(_)
      Sum(customers) ==
        IF customers = {} THEN 0
        ELSE LET customerId == CHOOSE c \in customers : TRUE
             IN  Len(intents[customerId]) + Sum(customers \ {customerId})
  IN  Sum(DOMAIN intents)

\* `intent_${Date.now()}_${random}`: an id no intent has yet
generateIntentId(intents) == GeneratedIntentIds[ActivityCount(intents) + 1]

\* the field of an object, when it is defined
Pick(params, field) ==
  IF field \in DOMAIN params THEN [f \in {field} |-> params[field]] ELSE EmptyMap

\* params.x || fallback
OrElse(params, field, fallback) ==
  IF field \in DOMAIN params /\ params[field] # "" THEN params[field] ELSE fallback

\* mock-data/customer createIntent: push of the scp_intent_created activity
storeIntent(intents, customerId, intentId) ==
  MapPut(intents, customerId,
         Append(getIntents(intents, customerId),
                [action |-> "scp_intent_created", timestamp |-> now,
                 data |-> [intent_id |-> intentId, status |-> "created",
                           source |-> "ai_assistant"]]))

\* an update pushed to the log of a customer that created the intent
storeUpdateAtOwner(intents, customerId, params, update) ==
  LET owners == {c \in DOMAIN intents :
                   \E i \in DOMAIN intents[c] :
                     /\ intents[c][i].action = "scp_intent_created"
                     /\ "intent_id" \in DOMAIN params
                     /\ intents[c][i].data.intent_id = params.intent_id}
      owner == IF owners = {} THEN customerId ELSE CHOOSE c \in owners : TRUE
  IN  MapPut(intents, owner,
             Append(getIntents(intents, owner),
                    [action |-> "scp_intent_updated", timestamp |-> now,
                     data |-> Pick(params, "intent_id") @@ update
                                @@ [source |-> "ai_assistant"]]))

\* mock-data/customer updateIntent: push of the scp_intent_updated activity;
\* a field of update that is undefined is a field the data does not carry
storeUpdate(intents, customerId, params, update) ==
  MapPut(intents, customerId,
         Append(getIntents(intents, customerId),
                [action |-> "scp_intent_updated", timestamp |-> now,
                 data |-> Pick(params, "intent_id") @@ update
                            @@ [source |-> "ai_assistant"]]))

\* intentMap.set(intentId, value): a Map keeps the place of a key it has
mapSet(intentMap, intentId, value) ==
  IF \E i \in 1..Len(intentMap) : intentMap[i].key = intentId
  THEN [i \in 1..Len(intentMap) |->
          IF intentMap[i].key = intentId THEN [key |-> intentId, value |-> value]
          ELSE intentMap[i]]
  ELSE Append(intentMap, [key |-> intentId, value |-> value])

\* a grouping whose updates are kept newest first
RECURSIVE groupActivitiesNewestFirst(_, _)
groupActivitiesNewestFirst(activities, n) ==
  IF n = 0 THEN << >>
  ELSE LET intentMap == groupActivitiesNewestFirst(activities, n - 1)
           activity == activities[n]
       IN  IF "intent_id" \notin DOMAIN activity.data THEN intentMap
           ELSE IF activity.action = "scp_intent_created"
             THEN mapSet(intentMap, activity.data.intent_id,
                         [created |-> activity, updates |-> << >>])
           ELSE IF \E i \in 1..Len(intentMap) :
                     intentMap[i].key = activity.data.intent_id
             THEN [i \in 1..Len(intentMap) |->
                     IF intentMap[i].key = activity.data.intent_id
                     THEN [intentMap[i] EXCEPT !.value.updates = << activity >> \o @]
                     ELSE intentMap[i]]
           ELSE intentMap

\* the first loop of transformIntentsToSCP over activities[1..n]
RECURSIVE groupActivities(_, _)
groupActivities(activities, n) ==
  IF n = 0 THEN << >>
  ELSE LET intentMap == groupActivities(activities, n - 1)
           activity == activities[n]
       IN  IF "intent_id" \notin DOMAIN activity.data THEN intentMap
           ELSE IF activity.action = "scp_intent_created"
             THEN mapSet(intentMap, activity.data.intent_id,
                         [created |-> activity, updates |-> << >>])
           ELSE IF \E i \in 1..Len(intentMap) :
                     intentMap[i].key = activity.data.intent_id
             THEN [i \in 1..Len(intentMap) |->
                     IF intentMap[i].key = activity.data.intent_id
                     THEN [intentMap[i] EXCEPT !.value.updates = Append(@, activity)]
                     ELSE intentMap[i]]
           ELSE intentMap

\* if (update.data.status)
hasStatus(update) == "status" \in DOMAIN update.data /\ update.data.status # ""

\* the status of the last update, whether it has one or not
lastActivityStatus(created, updates, n) ==
  IF n = 0 THEN [status |-> "created", updatedAt |-> created.timestamp]
  ELSE [status |-> IF hasStatus(updates[n]) THEN updates[n].data.status ELSE "created",
        updatedAt |-> updates[n].timestamp]

\* "Find latest status": the loop over updates[1..n]
RECURSIVE latestStatus(_, _, _)
latestStatus(created, updates, n) ==
  IF n = 0 THEN [status |-> "created", updatedAt |-> created.timestamp]
  ELSE IF hasStatus(updates[n])
    THEN [status |-> updates[n].data.status, updatedAt |-> updates[n].timestamp]
  ELSE latestStatus(created, updates, n - 1)

\* action.replace('scp_intent_', '')
eventOf(action) ==
  IF action = "scp_intent_created" THEN "created"
  ELSE IF action = "scp_intent_updated" THEN "updated"
  ELSE action

\* the milestone of an activity
milestone(activity, event) ==
  [timestamp |-> activity.timestamp, event |-> event, details |-> activity.data,
   source |-> OrElse(activity.data, "source", "merchant")]

transformIntentsToSCP(customerId, activities) ==
  LET intentMap == groupActivities(activities, Len(activities))
  IN  [i \in 1..Len(intentMap) |->
         LET created == intentMap[i].value.created
             updates == intentMap[i].value.updates
             latest == latestStatus(created, updates, Len(updates))
         IN  [intent_id |-> intentMap[i].key, customer_id |-> customerId,
              created_at |-> created.timestamp, updated_at |-> latest.updatedAt,
              status |-> latest.status,
              milestones |-> << milestone(created, "created") >>
                               \o [j \in 1..Len(updates) |->
                                     milestone(updates[j], eventOf(updates[j].action))]]]

\* getIntentsMethod: the log folded, the status filter, the first ten
getIntentsMethod(intents, customerId, params) ==
  LET all == transformIntentsToSCP(customerId, getIntents(intents, customerId))
      filtered == IF "status" \in DOMAIN params /\ params.status # ""
                  THEN SelectSeq(all, LAMBDA intent : intent.status = params.status)
                  ELSE all
  IN  [intents |-> SubSeq(filtered, 1, IF Len(filtered) < 10 THEN Len(filtered) ELSE 10),
       pagination |-> [total |-> Len(filtered), limit |-> 10, offset |-> 0,
                       has_more |-> Len(filtered) > 10]]

\* the cases of the switch: the scope check, then the data operation of the
\* method for the customer.  The value is the method's result and the
\* activity logs after it; the results of the four read-only collaborators
\* (orders, loyalty, offers, preferences) are the method and the customer
\* served.
routeCase(method, params, customerId, scopes) ==
  IF ~checkScope(scopes, RequiredScope(method))
    THEN missingScope(RequiredScope(method))
  ELSE IF method = "scp.create_intent"
    THEN LET intentId == OrElse(params, "intent_id", generateIntentId(MOCK_INTENTS))
         IN  [ok |-> TRUE,
              result |-> [intent_id |-> intentId, customer_id |-> customerId,
                          created_at |-> now, status |-> "created"],
              intents |-> storeIntent(MOCK_INTENTS, customerId, intentId)]
  ELSE IF method = "scp.get_intents"
    THEN [ok |-> TRUE, result |-> getIntentsMethod(MOCK_INTENTS, customerId, params),
          intents |-> MOCK_INTENTS]
  ELSE IF method = "scp.update_intent"
    THEN [ok |-> TRUE,
          result |-> Pick(params, "intent_id")
                      @@ [updated_at |-> now,
                          status |-> OrElse(params, "status", "active")],
          intents |-> storeUpdate(MOCK_INTENTS, customerId, params,
                                  Pick(params, "status"))]
  ELSE IF method = "scp.fulfill_intent"
    THEN [ok |-> TRUE,
          result |-> Pick(params, "intent_id")
                      @@ [status |-> "fulfilled", fulfilled_at |-> now],
          intents |-> storeUpdate(MOCK_INTENTS, customerId, params,
                                  [status |-> "fulfilled"])]
  ELSE [ok |-> TRUE, result |-> [served |-> method, customer |-> customerId],
        intents |-> MOCK_INTENTS]

\* a switch whose default falls into the first case
routeMethodDefaultOrders(method, params, customerId, scopes) ==
  IF method \notin Methods THEN routeCase("scp.get_orders", params, customerId, scopes)
  ELSE routeCase(method, params, customerId, scopes)

\* switch (method) { ...; default: throw createError(-32601, 'Method not found') }
routeMethod(method, params, customerId, scopes) ==
  IF method \notin Methods THEN Thrown(-32601, "Method not found")
  ELSE routeCase(method, params, customerId, scopes)

\* error.message.includes('expired') / includes('Invalid')
includesExpired(message) == message \in {"JWT expired"}

includesInvalid(message) ==
  message \in {"Invalid JWT format", "Invalid JWT signature"}

getErrorCode(error) ==
  IF error.code # 0 THEN error.code
  ELSE IF includesExpired(error.message) THEN -32000
  ELSE IF includesInvalid(error.message) THEN -32000
  ELSE -32603

\* a catch block that answers like the endpoint's own: without the id
errorEnvelopeNoId(request, error) ==
  [jsonrpc |-> "2.0", id |-> "null",
   error |-> [code |-> getErrorCode(error), message |-> error.message]]

errorEnvelope(request, error) ==
  [jsonrpc |-> "2.0", id |-> request.id,
   error |-> [code |-> getErrorCode(error), message |-> error.message]]

\* what the try block comes to: the verified token routed, or what was thrown
attempt(request, accessToken) ==
  LET verified == verifyAccessToken(accessToken, JWT_SECRET) IN
    IF ~verified.ok THEN verified
    ELSE routeMethod(request.method, request.params, verified.payload.sub,
                     verified.payload.scopes)

\* the envelope returned: of the result, or by the catch block
envelope(request, routed) ==
  IF ~routed.ok THEN errorEnvelope(request, routed)
  ELSE [jsonrpc |-> "2.0", id |-> request.id, result |-> routed.result]

handleRPCRequest(request, accessToken) ==
  envelope(request, attempt(request, accessToken))

Rpc(p, request, accessToken) ==
  /\ Ready(p)
  /\ LET routed == attempt(request, accessToken) IN
       /\ MOCK_INTENTS' = IF routed.ok THEN routed.intents ELSE MOCK_INTENTS
       /\ proc' = [proc EXCEPT ![p] =
            Done("rpc", [request |-> request, accessToken |-> accessToken],
                 envelope(request, routed))]
  /\ ActivityCount(MOCK_INTENTS') <= MaxLog
  /\ UNCHANGED << now, stores, nextId, nextToken, hist >>

\* an hour passes: the lifetime of an access token
Hour ==
  /\ now + AccessTokenTtl <= MaxClock
  /\ now' = now + AccessTokenTtl
  /\ UNCHANGED << stores, nextId, nextToken, proc, hist, MOCK_INTENTS >>

(***************************************************************************)
(* The arguments callers present: any identifier handed out so far, and    *)
(* any refresh token value but the ones an invocation has generated and    *)
(* not yet returned (256 random bits that nobody else holds).              *)
(***************************************************************************)
Ids == 1..nextId

Unreturned ==
  {proc[p].refreshToken : p \in {q \in Procs : proc[q].pc = "exchange_insertToken"}}
    \cup {proc[p].newRefreshToken : p \in {q \in Procs : proc[q].pc = "refresh_update"}}

Tokens == (1..nextToken) \ Unreturned

(***************************************************************************)
(* The steps of the authorization endpoints and of the token endpoints.    *)
(***************************************************************************)
InitStep(p) ==
  \/ \E request \in AuthRequests : InitPutRequest(p, request)
  \/ \E sent \in BOOLEAN : InitPutToken(p, sent)

PollStep(p) ==
  \E authRequestId \in Ids, clientId \in Clients : Poll(p, authRequestId, clientId)

ConfirmStep(p) ==
  \/ \E magicToken \in Ids : ConfirmGetToken(p, magicToken)
  \/ ConfirmGetRequest(p)
  \/ \E threw \in BOOLEAN : ConfirmVerify(p, threw)
  \/ ConfirmPutDenied(p)
  \/ ConfirmInsertCode(p)
  \/ ConfirmPutAuthorized(p)
  \/ ConfirmDeleteToken(p)

ExchangeStep(p) ==
  \/ \E code \in Ids, codeVerifier \in Verifiers, clientId \in Clients :
       ExchangeSelect(p, code, codeVerifier, clientId)
  \/ ExchangeMarkUsed(p)
  \/ ExchangeInsertToken(p)

RefreshStep(p) ==
  \/ \E refreshToken \in Tokens, clientId \in Clients :
       RefreshSelect(p, refreshToken, clientId)
  \/ RefreshUpdate(p)

RevokeStep(p) == \E token \in Tokens : Revoke(p, token)

\* the access tokens callers hold: the ones of the answers of the token
\* endpoint, and the ones presented before
HeldAccessTokens ==
  {proc[q].response.body.access_token :
     q \in {r \in Procs : Succeeded(r, "exchange") \/ Succeeded(r, "refresh")}}
    \cup {proc[q].args.accessToken :
             q \in {r \in Procs : proc[r].pc = "done" /\ proc[r].op = "rpc"}}

RpcRequests ==
  {[id |-> "r1", method |-> method, params |-> EmptyMap] :
     method \in Methods \cup {"scp.unknown"}}

RpcStep(p) ==
  \E request \in RpcRequests, accessToken \in HeldAccessTokens :
    Rpc(p, request, accessToken)

(***************************************************************************)
(* The whole server: any invocation may take its next step at any time.    *)
(***************************************************************************)
Next ==
  \/ Tick
  \/ EvictAuthRequest
  \/ EvictMagicLinkToken
  \/ \E p \in Procs : InitStep(p)
  \/ \E p \in Procs : PollStep(p)
  \/ \E p \in Procs : ConfirmStep(p)
  \/ \E p \in Procs : ExchangeStep(p)
  \/ \E p \in Procs : RefreshStep(p)
  \/ \E p \in Procs : RevokeStep(p)
  \/ \E p \in Procs : RpcStep(p)
  \/ Hour

Spec == Init /\ [][Next]_vars

(***************************************************************************)
(* The authorization endpoints alone.  The token endpoints read and write  *)
(* only auth_codes.used and refresh_tokens, which init, poll and confirm    *)
(* never read, so every interleaving of the authorization endpoints is     *)
(* here.                                                                   *)
(***************************************************************************)
NextAuthorize ==
  \/ Tick
  \/ EvictAuthRequest
  \/ EvictMagicLinkToken
  \/ \E p \in Procs : InitStep(p)
  \/ \E p \in Procs : PollStep(p)
  \/ \E p \in Procs : ConfirmStep(p)

SpecAuthorize == Init /\ [][NextAuthorize]_vars

(***************************************************************************)
(* The token endpoints, in every interleaving, on the authorization codes  *)
(* that authorizations leave in auth_codes.  All an authorization          *)
(* contributes to the token endpoints is the row it inserts, so here the   *)
(* authorizations that end with a code run one at a time, without a pause, *)
(* while no token invocation is in flight.                                 *)
(***************************************************************************)
Quiet == \A p \in Procs : Ready(p)

InAuthorize(p) ==
  proc[p].pc \in {"init_putToken", "confirm_getRequest", "confirm_verify",
                  "confirm_insertCode", "confirm_putAuthorized", "confirm_deleteToken"}

AuthorizeAloneOn(requests) ==
  /\ Quiet \/ InAuthorize(1)
  /\ \/ \E request \in requests :
          verifyEmail(request.email).exists /\ InitPutRequest(1, request)
     \/ InitPutToken(1, TRUE)
     \/ \E magicToken \in DOMAIN MAGIC_LINK_TOKENS : ConfirmGetToken(1, magicToken)
     \/ ConfirmGetRequest(1)
     \/ ConfirmVerify(1, FALSE)
     \/ ConfirmInsertCode(1)
     \/ ConfirmPutAuthorized(1)
     \/ ConfirmDeleteToken(1)

AuthorizeAlone == AuthorizeAloneOn(AuthRequests)

NextToken ==
  \/ ~InAuthorize(1) /\ Tick
  \/ AuthorizeAlone
  \/ \E p \in Procs : ~InAuthorize(1) /\ ExchangeStep(p)
  \/ \E p \in Procs : ~InAuthorize(1) /\ RefreshStep(p)
  \/ \E p \in Procs : ~InAuthorize(1) /\ RevokeStep(p)

SpecToken == Init /\ [][NextToken]_vars

(***************************************************************************)
(* The RPC endpoint on the access tokens that the token endpoint hands     *)
(* out, over the hour an access token lives.  handleRPCRequest is one      *)
(* step that reads no store, so here invocation 1 runs the authorization   *)
(* and token endpoints, one call at a time, and the others call the RPC    *)
(* endpoint.  The authorizations are those of a client that asks for the   *)
(* scope orders alone or for orders and loyalty, and that presents to the  *)
(* token endpoint its own client_id and the verifier of its challenge.     *)
(***************************************************************************)
GrantRequests ==
  { [email |-> <<97, 64, 98>>, client_id |-> "c1", client_name |-> "agent",
     scopes |-> scopes, code_challenge |-> "h1"] :
       scopes \in {<< "orders" >>, << "orders", "loyalty" >>} }

ExchangeGranted(p) ==
  \/ \E code \in DOMAIN auth_codes, codeVerifier \in Verifiers :
       /\ verifyPKCE(codeVerifier, auth_codes[code].code_challenge)
       /\ ExchangeSelect(p, code, codeVerifier, auth_codes[code].client_id)
  \/ ExchangeMarkUsed(p)
  \/ ExchangeInsertToken(p)

\* a poll by the client of the request
PollOwner(p) ==
  \E authRequestId \in DOMAIN AUTH_REQUESTS :
    Poll(p, authRequestId, KvGet(AUTH_REQUESTS, authRequestId).client_id)

NextRpc ==
  \/ ~InAuthorize(1) /\ Tick
  \/ ~InAuthorize(1) /\ Hour
  \/ AuthorizeAloneOn(GrantRequests)
  \/ ~InAuthorize(1) /\ ExchangeGranted(1)
  \/ ~InAuthorize(1) /\ RefreshStep(1)
  \/ ~InAuthorize(1) /\ RevokeStep(1)
  \/ \E p \in Procs \ {1} : ~InAuthorize(1) /\ RpcStep(p)
  \/ \E p \in Procs \ {1} : ~InAuthorize(1) /\ PollOwner(p)

SpecRpc == Init /\ [][NextRpc]_vars

(***************************************************************************)
(* An authorization within the lifetime of its request: the clock stands   *)
(* still, every invocation may confirm, the owning client polls, and an    *)
(* invocation that can take a step of a confirm or a poll of the owner     *)
(* eventually takes it.                                                    *)
(***************************************************************************)
NextLive ==
  \/ InitStep(1)
  \/ \E p \in Procs : ConfirmStep(p)
  \/ \E p \in Procs : PollOwner(p)

SpecLive ==
  /\ Init /\ [][NextLive]_vars
  /\ \A p \in Procs : WF_vars(ConfirmStep(p)) /\ WF_vars(PollOwner(p))

(***************************************************************************)
(* exchangeCodeForTokens on a store whose writes may fail: the run() of    *)
(* the UPDATE or of the INSERT rejects, the handler has no catch around    *)
(* them, and the endpoint answers invalid_grant with the store's message.  *)
(* A write that rejects changes no row.                                    *)
(***************************************************************************)
ExchangeMarkUsedThrows(p) ==
  /\ proc[p].pc = "exchange_markUsed"
  /\ proc' = [proc EXCEPT ![p] =
       Done("exchange", [code |-> proc[p].code], Failed("invalid_grant", "D1_ERROR"))]
  /\ UNCHANGED << now, stores, nextId, nextToken, hist, MOCK_INTENTS >>

ExchangeInsertTokenThrows(p) ==
  /\ proc[p].pc = "exchange_insertToken"
  /\ proc' = [proc EXCEPT ![p] =
       Done("exchange", [code |-> proc[p].code], Failed("invalid_grant", "D1_ERROR"))]
  /\ UNCHANGED << now, stores, nextId, nextToken, hist, MOCK_INTENTS >>

NextFailingStore ==
  \/ ~InAuthorize(1) /\ Tick
  \/ AuthorizeAlone
  \/ \E p \in Procs : ~InAuthorize(1) /\ ExchangeStep(p)
  \/ \E p \in Procs : ~InAuthorize(1) /\ ExchangeMarkUsedThrows(p)
  \/ \E p \in Procs : ~InAuthorize(1) /\ ExchangeInsertTokenThrows(p)

SpecFailingStore == Init /\ [][NextFailingStore]_vars

(***************************************************************************)
(* The token endpoints over the thirty days a refresh token lives: the     *)
(* authorizations and exchanges of the owning client on invocation 1, the  *)
(* refreshes and revocations of every invocation in every interleaving,    *)
(* and a wait of thirty days and five minutes.                             *)
(***************************************************************************)
Month ==
  /\ now + RefreshTokenTtl + 1 <= MaxGrantClock
  /\ now' = now + RefreshTokenTtl + 1
  /\ UNCHANGED << stores, nextId, nextToken, proc, hist, MOCK_INTENTS >>

NextGrant ==
  \/ ~InAuthorize(1) /\ Tick
  \/ ~InAuthorize(1) /\ Month
  \/ AuthorizeAloneOn(GrantRequests)
  \/ ~InAuthorize(1) /\ ExchangeGranted(1)
  \/ \E p \in Procs : ~InAuthorize(1) /\ RefreshStep(p)
  \/ \E p \in Procs : ~InAuthorize(1) /\ RevokeStep(p)

SpecGrant == Init /\ [][NextGrant]_vars

(***************************************************************************)
(* The RPC methods on the access tokens of grants of each single scope.    *)
(* routeMethod reads the token's claims and the activity logs only, so     *)
(* here one caller presents, for the customer a@b, the access token that   *)
(* the token endpoint issues at time 0 to a grant of one scope.            *)
(***************************************************************************)
Scopes ==
  {"orders", "loyalty", "offers", "preferences",
   "intent:create", "intent:read", "intent:write"}

Customer == << 97, 64, 98 >>

ScopeTokens ==
  {createJWT(tokenPayload(customerIdOf(Customer), Customer, << scope >>, 0), JWT_SECRET) :
     scope \in Scopes}

DataRequests ==
  {[id |-> "r1", method |-> method, params |-> params] :
     method \in Methods \cup {"scp.unknown"},
     params \in {EmptyMap, [intent_id |-> "i1", status |-> "active"]}}

DataCall(p) ==
  \E request \in DataRequests, accessToken \in ScopeTokens : Rpc(p, request, accessToken)

NextData == DataCall(1)

SpecData == Init /\ [][NextData]_vars

(***************************************************************************)
(* verifyAccessToken and handleRPCRequest on the tokens a caller can       *)
(* present: the access token generateAccessToken makes at time 0 for the   *)
(* customer a@b under either secret, and what can be made of its parts: a  *)
(* token cut to two parts, one whose header names another algorithm and    *)
(* one whose payload is not JSON, both with the HMAC-SHA-256 signature of  *)
(* their header.payload.  Tokens expire as the clock goes.                 *)
(***************************************************************************)
Secrets == {"S1", "S2"}

issuedToken(scopes, secret) ==
  createJWT(tokenPayload(customerIdOf(Customer), Customer, scopes, 0), secret)

signedParts(encodedHeader, encodedPayload, secret) ==
  << encodedHeader, encodedPayload, sign(<< encodedHeader, encodedPayload >>, secret) >>

PresentedTokens ==
  {issuedToken(scopes, secret) :
     scopes \in {<< "orders" >>, << "orders", "loyalty" >>}, secret \in Secrets}
    \cup {SubSeq(issuedToken(<< "orders" >>, JWT_SECRET), 1, 2)}
    \cup {signedParts(base64urlEncode(objectText([alg |-> "none", typ |-> "JWT"])),
                      issuedToken(<< "orders" >>, secret)[2], secret) : secret \in Secrets}
    \cup {signedParts(issuedToken(<< "orders" >>, JWT_SECRET)[1],
                      base64urlEncode(<< "text", "not json" >>), JWT_SECRET)}

\* a call of verifyAccessToken(token, secret)
Verify(p, token, secret) ==
  /\ Ready(p)
  /\ proc' = [proc EXCEPT ![p] =
       Done("verify", [token |-> token, secret |-> secret],
            verifyAccessToken(token, secret))]
  /\ UNCHANGED << now, stores, nextId, nextToken, hist, MOCK_INTENTS >>

JwtRequests ==
  {[id |-> id, method |-> method, params |-> EmptyMap] :
     id \in {"r1", "r2"},
     method \in {"scp.get_orders", "scp.get_loyalty", "scp.unknown"}}

NextJwt ==
  \/ Tick
  \/ Hour
  \/ \E p \in Procs, token \in PresentedTokens, secret \in Secrets : Verify(p, token, secret)
  \/ \E p \in Procs, request \in JwtRequests, accessToken \in PresentedTokens :
       Rpc(p, request, accessToken)

SpecJwt == Init /\ [][NextJwt]_vars

(***************************************************************************)
(* The intent methods as time goes: one caller with the access token of a  *)
(* grant of the three intent scopes creates, updates, fulfills and reads   *)
(* intents, with an id of its own choosing or none, with or without a      *)
(* status.                                                                 *)
(***************************************************************************)
IntentToken ==
  createJWT(tokenPayload(customerIdOf(Customer), Customer,
                         << "intent:create", "intent:read", "intent:write" >>, 0),
            JWT_SECRET)

IntentParams ==
  {EmptyMap, [intent_id |-> "i1"], [intent_id |-> "i1", status |-> "active"],
   [intent_id |-> "i2", status |-> "done"]}

IntentRequests ==
  {[id |-> "r1", method |-> method, params |-> params] :
     method \in {"scp.create_intent", "scp.get_intents", "scp.update_intent",
                 "scp.fulfill_intent"},
     params \in IntentParams}

IntentCall(p) == \E request \in IntentRequests : Rpc(p, request, IntentToken)

NextIntents ==
  \/ Tick
  \/ IntentCall(1)

SpecIntents == Init /\ [][NextIntents]_vars

(***************************************************************************)
(* The intent methods called for two customers: one caller presents the    *)
(* access token of a grant of the three intent scopes to the one customer  *)
(* or to the other, and both name the same intent_id.                      *)
(***************************************************************************)
Customers == {Customer, << 99, 64, 100 >>}

TenantTokens ==
  {createJWT(tokenPayload(customerIdOf(email), email,
                          << "intent:create", "intent:read", "intent:write" >>, 0),
             JWT_SECRET) : email \in Customers}

TenantRequests ==
  {[id |-> "r1", method |-> method, params |-> params] :
     method \in {"scp.create_intent", "scp.get_intents", "scp.update_intent",
                 "scp.fulfill_intent"},
     params \in {[intent_id |-> "i1"], [intent_id |-> "i1", status |-> "active"]}}

TenantCall(p) ==
  \E request \in TenantRequests, accessToken \in TenantTokens :
    Rpc(p, request, accessToken)

NextTenants ==
  \/ Tick
  \/ TenantCall(1)

SpecTenants == Init /\ [][NextTenants]_vars

(***************************************************************************)
(*                              The claims                                 *)
(***************************************************************************)
ConfirmPastLookup(p) ==
  proc[p].pc \in {"confirm_getRequest", "confirm_verify", "confirm_putDenied",
                  "confirm_insertCode", "confirm_putAuthorized", "confirm_deleteToken"}

CodesOf(authRequestId) ==
  {c \in DOMAIN hist.codeRequest : hist.codeRequest[c] = authRequestId}

TokensIssuedFor(code) == {t \in DOMAIN hist.issued : hist.issued[t] = code}

\* C1: of two confirmAuthorization invocations on the same magic-link token
\* that interleave at their store operations, at most one passes the token
\* lookup, so that at most one authorization code row is inserted for a token.
C1_OneConfirmPerMagicLink ==
  /\ \A p, q \in Procs :
       (p # q /\ ConfirmPastLookup(p) /\ ConfirmPastLookup(q))
         => proc[p].magicToken # proc[q].magicToken
  /\ \A authRequestId \in DOMAIN hist.initScopes :
       Cardinality(CodesOf(authRequestId)) <= 1

\* C2: of two exchangeCodeForTokens invocations with the same valid code, the
\* right verifier and client_id, that interleave at their store operations,
\* one returns tokens and the other fails: no authorization code ever has two
\* refresh token rows issued from it.
C2_OneRefreshTokenPerCode ==
  \A code \in DOMAIN auth_codes : Cardinality(TokensIssuedFor(code)) <= 1

\* C3: two refreshAccessToken invocations on the same refresh token value
\* never both return successfully with refresh_token values that both resolve
\* to a row of refresh_tokens.
C3_NoTwoLiveRotations ==
  \A p, q \in Procs :
    (/\ p # q
     /\ Succeeded(p, "refresh") /\ Succeeded(q, "refresh")
     /\ proc[p].args.refreshToken = proc[q].args.refreshToken)
    => ~(/\ proc[p].response.body.refresh_token \in DOMAIN refresh_tokens
         /\ proc[q].response.body.refresh_token \in DOMAIN refresh_tokens)

\* two refreshes of one token value have both returned tokens, and one of the
\* two values resolves
C3_Witness ==
  \E p, q \in Procs :
    /\ p # q
    /\ Succeeded(p, "refresh") /\ Succeeded(q, "refresh")
    /\ proc[p].args.refreshToken = proc[q].args.refreshToken
    /\ proc[p].response.body.refresh_token \in DOMAIN refresh_tokens

\* C4: of two exchangeCodeForTokens invocations with the same code, the right
\* code_verifier and client_id, one after the other and before the code
\* expires, the first returns tokens; the second, which starts once the code
\* is redeemed, fails with invalid_grant and issues no refresh token row.
C4_SecondExchangeFails ==
  [][/\ \A p \in Procs, code \in Ids, codeVerifier \in Verifiers, clientId \in Clients :
          ExchangeSelect(p, code, codeVerifier, clientId) =>
            /\ (code \in hist.redeemed) =>
                 /\ proc'[p] = Done("exchange", [code |-> code],
                                    Failed("invalid_grant",
                                           "Invalid or used authorization code"))
                 /\ refresh_tokens' = refresh_tokens
                 /\ hist'.issued = hist.issued
            /\ (/\ code \in DOMAIN auth_codes
                /\ auth_codes[code].used = 0
                /\ auth_codes[code].expires_at >= now
                /\ auth_codes[code].client_id = clientId
                /\ S256(codeVerifier) = auth_codes[code].code_challenge) =>
                 proc'[p].pc = "exchange_markUsed"
     /\ \A p \in Procs :
          ExchangeInsertToken(p) =>
            /\ proc'[p].pc = "done" /\ proc'[p].response.ok
            /\ proc'[p].response.body.refresh_token \in DOMAIN refresh_tokens'
            /\ proc[p].code \in hist'.redeemed
    ]_vars

\* an exchange of a code that has been redeemed has failed
C4_Witness ==
  \E p \in Procs :
    /\ FailedWith(p, "exchange", "Invalid or used authorization code")
    /\ proc[p].response.error = "invalid_grant"
    /\ proc[p].args.code \in hist.redeemed

\* C5: once a confirmAuthorization with magic-link token t has returned
\* successfully, every confirmAuthorization with t that starts afterwards
\* fails with the invalid-or-expired-link error and leaves AUTH_REQUESTS,
\* MAGIC_LINK_TOKENS and auth_codes as they are.
C5_ConfirmedLinkIsDead ==
  [][\A p \in Procs, magicToken \in Ids :
       (/\ ConfirmGetToken(p, magicToken)
        /\ \E pair \in hist.confirmed : pair[1] = magicToken)
       => /\ proc'[p] = Done("confirm", [magicToken |-> magicToken],
                             Failed("Authorization Failed",
                                    "Invalid or expired magic link"))
          /\ UNCHANGED << AUTH_REQUESTS, MAGIC_LINK_TOKENS, auth_codes >>
    ]_vars

\* a confirm of a magic link that had been confirmed has failed
C5_Witness ==
  \E p \in Procs :
    /\ FailedWith(p, "confirm", "Invalid or expired magic link")
    /\ \E pair \in hist.confirmed : pair[1] = proc[p].args.magicToken

\* C6: for a pending request whose magic link is present and whose email the
\* directory verifies, a single confirmAuthorization stores the request with
\* status authorized, its code and the verified customer id, and inserts
\* exactly one auth_codes row, for that code, with used = 0 and the email,
\* client_id, scopes and code_challenge of the request.
C6_SingleConfirmAuthorizes ==
  [][\A p \in Procs :
       (/\ ConfirmPutAuthorized(p)
        /\ hist.passed[proc[p].authRequestId] = 1
        /\ proc[p].authRequest.status = "pending")
       => LET authRequestId == proc[p].authRequestId
              authRequest == proc[p].authRequest
              authCode == proc[p].authCode
              stored == KvGet(AUTH_REQUESTS, authRequestId)'
              row == auth_codes'[authCode]
          IN  /\ KvHas(AUTH_REQUESTS, authRequestId)'
              /\ stored.status = "authorized"
              /\ "code" \in DOMAIN stored /\ stored.code = authCode
              /\ stored.customer_id = verifyEmail(authRequest.email).customerId
              /\ stored.customer_id # NULL
              /\ CodesOf(authRequestId) = {authCode}
              /\ authCode \in DOMAIN auth_codes'
              /\ row.used = 0
              /\ row.customer_email = authRequest.email
              /\ row.client_id = authRequest.client_id
              /\ JSONparse(row.scopes) = authRequest.scopes
              /\ row.code_challenge = authRequest.code_challenge
              /\ row.cordial_contact_id = stored.customer_id
    ]_vars

\* the only confirm of a request has returned successfully and the request is
\* stored as authorized
C6_Witness ==
  \E p \in Procs :
    /\ Succeeded(p, "confirm")
    /\ hist.passed[proc[p].args.authRequestId] = 1
    /\ KvHas(AUTH_REQUESTS, proc[p].args.authRequestId)
    /\ KvGet(AUTH_REQUESTS, proc[p].args.authRequestId).status = "authorized"
    /\ proc[p].args.authCode \in DOMAIN auth_codes

\* the answer of a poll that presents the client_id of the request
PollOwn(authRequestId) ==
  pollAuthorization(authRequestId, KvGet(AUTH_REQUESTS, authRequestId).client_id)

ConfirmedRequests == {pair[2] : pair \in hist.confirmed}

\* C7 as stated: as long as no confirmAuthorization for the magic link of a
\* request has returned successfully and the request has not expired,
\* pollAuthorization with the request's client_id answers pending.
C7_PendingUntilConfirmReturns ==
  \A authRequestId \in DOMAIN AUTH_REQUESTS :
    (/\ now <= KvGet(AUTH_REQUESTS, authRequestId).expires_at
     /\ authRequestId \notin ConfirmedRequests)
    => /\ PollOwn(authRequestId).ok
       /\ PollOwn(authRequestId).body.status = "pending"

\* C7, amended: as long as no confirmAuthorization has found the magic link
\* of a request and the request has not expired, pollAuthorization with the
\* request's client_id answers pending; it answers authorized only with the
\* code of a row that a confirmAuthorization of the request has inserted.
C7_PendingUntilConfirmStarts ==
  \A authRequestId \in DOMAIN AUTH_REQUESTS :
    /\ (/\ now <= KvGet(AUTH_REQUESTS, authRequestId).expires_at
        /\ authRequestId \notin DOMAIN hist.passed)
       => /\ PollOwn(authRequestId).ok
          /\ PollOwn(authRequestId).body.status = "pending"
    /\ (/\ PollOwn(authRequestId).ok
        /\ PollOwn(authRequestId).body.status = "authorized")
       => /\ PollOwn(authRequestId).body.code \in CodesOf(authRequestId)
          /\ PollOwn(authRequestId).body.code \in DOMAIN auth_codes

\* a poll of a request that no confirm has touched has answered pending
C7_Witness ==
  \E p \in Procs :
    /\ Succeeded(p, "poll")
    /\ proc[p].response.body.status = "pending"
    /\ proc[p].args.authRequestId \in DOMAIN AUTH_REQUESTS
    /\ proc[p].args.authRequestId \notin DOMAIN hist.passed
    /\ proc[p].args.clientId = KvGet(AUTH_REQUESTS, proc[p].args.authRequestId).client_id

\* C8: exchangeCodeForTokens with a code_verifier whose S256 transform is not
\* the stored code_challenge fails with invalid_grant, returns no tokens and
\* writes nothing, whether the code is unknown, unused, used, expired or
\* another client's.
C8_WrongVerifierFails ==
  [][\A p \in Procs, code \in Ids, codeVerifier \in Verifiers, clientId \in Clients :
       (/\ ExchangeSelect(p, code, codeVerifier, clientId)
        /\ \/ code \notin DOMAIN auth_codes
           \/ S256(codeVerifier) # auth_codes[code].code_challenge)
       => /\ proc'[p].pc = "done"
          /\ proc'[p].op = "exchange"
          /\ ~proc'[p].response.ok
          /\ proc'[p].response.error = "invalid_grant"
          /\ UNCHANGED << stores, nextToken >>
    ]_vars

\* an exchange of an unused, unexpired code by its own client has failed on
\* the verifier
C8_Witness ==
  \E p \in Procs :
    /\ FailedWith(p, "exchange", "Invalid code_verifier")
    /\ proc[p].response.error = "invalid_grant"

\* the scopes given to initAuthorization for the grant of a refresh token
GrantScopes(token) == hist.initScopes[hist.codeRequest[hist.grant[token]]]

\* the scopes claim of an access token
ScopesOfJWT(token) == base64urlDecode(token[2])[2].scopes

\* C9: after any number of refreshAccessToken calls on a grant, the scope of
\* the response, the scopes of the minted access token and the scopes of the
\* refresh_tokens row are the scopes given to initAuthorization for the grant.
C9_RefreshKeepsScopes ==
  /\ \A token \in DOMAIN refresh_tokens :
       JSONparse(refresh_tokens[token].scopes) = GrantScopes(token)
  /\ \A p \in Procs :
       (Succeeded(p, "refresh") \/ Succeeded(p, "exchange")) =>
         LET body == proc[p].response.body IN
           /\ body.scope = Join(GrantScopes(body.refresh_token))
           /\ ScopesOfJWT(body.access_token) = GrantScopes(body.refresh_token)

\* a refresh of a token that a refresh had returned has returned, on a grant
\* of two scopes, and its token is installed
C9_Witness ==
  \E p \in Procs :
    /\ Succeeded(p, "refresh")
    /\ proc[p].args.refreshToken \notin DOMAIN hist.issued
    /\ proc[p].response.body.refresh_token \in DOMAIN refresh_tokens
    /\ Len(GrantScopes(proc[p].response.body.refresh_token)) = 2

\* C10: when refreshAccessToken with refresh token r returns r', r is no
\* longer a key of refresh_tokens, so a later refreshAccessToken(r) fails
\* with invalid_grant, and r' is one, so refreshAccessToken(r') with the same
\* client_id passes its validation.
C10_RotationInstallsNewToken ==
  [][\A p \in Procs :
       RefreshUpdate(p) =>
         /\ proc[p].refreshToken \notin DOMAIN refresh_tokens'
         /\ proc[p].newRefreshToken \in DOMAIN refresh_tokens'
         /\ refresh_tokens'[proc[p].newRefreshToken].client_id = proc[p].result.client_id
         /\ refresh_tokens'[proc[p].newRefreshToken].expires_at >= now
    ]_vars

\* every revocation that has been answered named a token that no longer
\* resolves: a refresh with it fails on the lookup, whatever the client_id
RevokedStaysGone ==
  \A p \in Procs :
    Succeeded(p, "revoke") =>
      /\ proc[p].args.token \notin DOMAIN refresh_tokens
      /\ \A clientId \in Clients :
           refreshValidation(proc[p].args.token, clientId) = "Invalid refresh token"

RpcCall(p) ==
  /\ proc'[p].pc = "done" /\ proc'[p].op = "rpc"
  /\ Rpc(p, proc'[p].args.request, proc'[p].args.accessToken)

ClaimsOfJWT(token) == base64urlDecode(token[2])[2]

Authenticated(response) ==
  "error" \notin DOMAIN response \/ response.error.code # -32000

\* C12: whether handleRPCRequest authenticates an access token that the token
\* endpoint issued depends on the token and the clock only, not on the
\* stores: also after revokeToken or refreshAccessToken on the refresh token
\* of its grant, it authenticates the token while now <= exp and rejects it
\* as expired once exp < now.
C12_AccessTokenOutlivesGrant ==
  [][\A p \in Procs :
       RpcCall(p) =>
         LET request == proc'[p].args.request
             accessToken == proc'[p].args.accessToken
         IN
         /\ (now <= ClaimsOfJWT(accessToken).exp) =>
              /\ Authenticated(proc'[p].response)
              /\ proc'[p].response =
                   LET routed == routeMethod(request.method, request.params,
                                             ClaimsOfJWT(accessToken).sub,
                                             ClaimsOfJWT(accessToken).scopes)
                   IN  IF routed.ok
                       THEN [jsonrpc |-> "2.0", id |-> request.id,
                             result |-> routed.result]
                       ELSE [jsonrpc |-> "2.0", id |-> request.id,
                             error |-> [code |-> routed.code,
                                        message |-> routed.message]]
         /\ (ClaimsOfJWT(accessToken).exp < now) =>
              proc'[p].response =
                [jsonrpc |-> "2.0", id |-> request.id,
                 error |-> [code |-> -32000, message |-> "JWT expired"]]
    ]_vars

\* after the only refresh token of a grant has been revoked, a call with an
\* access token of the grant has been served
C12_Witness ==
  \E p, q \in Procs :
    /\ hist.issued # EmptyMap /\ refresh_tokens = EmptyMap
    /\ Succeeded(p, "revoke")
    /\ proc[q].pc = "done" /\ proc[q].op = "rpc"
    /\ "result" \in DOMAIN proc[q].response
    /\ now > 0

\* C13: initAuthorization does not ask the customer directory: for every
\* email, of a customer or not, it stores a pending request without a
\* customer id and answers {auth_request_id, email_sent: true,
\* expires_in: 600, poll_interval: 2}; its answer is determined by the
\* request id and the sending of the email, and is never customer_not_found.
C13_InitDoesNotVerify ==
  [][/\ \A p \in Procs, request \in AuthRequests :
          InitPutRequest(p, request) =>
            LET stored == KvGet(AUTH_REQUESTS, nextId)' IN
              /\ nextId' = generateId(nextId)
              /\ KvHas(AUTH_REQUESTS, nextId)'
              /\ stored.status = "pending"
              /\ stored.customer_id = NULL
              /\ stored.email = request.email
              /\ "code" \notin DOMAIN stored
     /\ \A p \in Procs, sent \in BOOLEAN :
          InitPutToken(p, sent) =>
            /\ proc'[p].response =
                 IF sent
                 THEN [ok |-> TRUE,
                       body |-> [auth_request_id |-> proc[p].authRequestId,
                                 email_sent |-> TRUE, expires_in |-> 600,
                                 poll_interval |-> 2]]
                 ELSE [ok |-> FALSE, error |-> "server_error",
                       error_description |-> "Failed to send email"]
            /\ UNCHANGED << AUTH_REQUESTS, auth_codes >>
    ]_vars

\* an init for an email that the directory does not verify has been answered
\* with the response of a successful init, and its request is stored pending
C13_Witness ==
  \E p \in Procs :
    /\ Succeeded(p, "init")
    /\ ~verifyEmail(proc[p].args.request.email).exists
    /\ proc[p].response.body.email_sent
    /\ KvHas(AUTH_REQUESTS, proc[p].response.body.auth_request_id)
    /\ KvGet(AUTH_REQUESTS, proc[p].response.body.auth_request_id).status = "pending"

\* C14: when confirmAuthorization has found the token and the request and the
\* directory throws or does not know the customer, it inserts no auth_codes
\* row, stores the request with status denied and fails with the
\* customer-not-found error; a poll by the owning client then answers
\* {status: denied}, without a code, while the request has not expired.
C14_DeniedWhenNotVerified ==
  [][/\ \A p \in Procs, threw \in BOOLEAN :
          (/\ ConfirmVerify(p, threw)
           /\ (threw \/ ~verifyEmail(proc[p].authRequest.email).exists))
          => /\ proc'[p].pc = "confirm_putDenied"
             /\ UNCHANGED << stores, nextId >>
     /\ \A p \in Procs, authRequestId \in Ids :
          (ConfirmPutDenied(p) /\ authRequestId = proc[p].authRequestId)
          => /\ KvHas(AUTH_REQUESTS, authRequestId)'
             /\ KvGet(AUTH_REQUESTS, authRequestId)'.status = "denied"
             /\ UNCHANGED << auth_codes, refresh_tokens >>
             /\ hist'.codeRequest = hist.codeRequest
             /\ proc'[p].response =
                  Failed("Authorization Failed", "Customer not found in merchant system")
             /\ (now <= proc[p].authRequest.expires_at)
                  => PollOwn(authRequestId)' = [ok |-> TRUE, body |-> [status |-> "denied"]]
    ]_vars

\* a confirm has failed with the customer-not-found error, its request is
\* stored as denied and no code was ever inserted for it
C14_Witness ==
  \E p \in Procs, authRequestId \in DOMAIN AUTH_REQUESTS :
    /\ FailedWith(p, "confirm", "Customer not found in merchant system")
    /\ KvHas(MAGIC_LINK_TOKENS, proc[p].args.magicToken)
    /\ KvGet(MAGIC_LINK_TOKENS, proc[p].args.magicToken) = authRequestId
    /\ KvGet(AUTH_REQUESTS, authRequestId).status = "denied"
    /\ CodesOf(authRequestId) = {}
    /\ PollOwn(authRequestId) = Returned([status |-> "denied"])

\* C15: every confirmAuthorization whose lookup has found the magic-link
\* token has consumed it by the time it returns, be it with success, with the
\* request-expired error or with the customer-not-found error: the token is
\* then absent from MAGIC_LINK_TOKENS.
C15_ConfirmConsumesToken ==
  [][\A p \in Procs, magicToken \in Ids :
       (/\ ConfirmPastLookup(p)
        /\ proc[p].magicToken = magicToken
        /\ proc'[p].pc = "done")
       => ~KvHas(MAGIC_LINK_TOKENS, magicToken)'
    ]_vars

\* C16: pollAuthorization with a client_id other than the one of a stored
\* request fails with the invalid-client-id error and answers neither the
\* status nor the code of the request, be it pending, authorized or denied.
C16_OtherClientLearnsNothing ==
  \A authRequestId \in DOMAIN AUTH_REQUESTS, clientId \in Clients :
    (clientId # KvGet(AUTH_REQUESTS, authRequestId).client_id)
    => pollAuthorization(authRequestId, clientId)
         = [ok |-> FALSE, error |-> "server_error",
            error_description |-> "Invalid client_id"]

\* a poll with another client's id of a request that is stored as authorized,
\* with its code, has failed with the invalid-client-id error
C16_Witness ==
  \E p \in Procs :
    /\ FailedWith(p, "poll", "Invalid client_id")
    /\ KvHas(AUTH_REQUESTS, proc[p].args.authRequestId)
    /\ KvGet(AUTH_REQUESTS, proc[p].args.authRequestId).status = "authorized"
    /\ "code" \in DOMAIN KvGet(AUTH_REQUESTS, proc[p].args.authRequestId)
    /\ now <= KvGet(AUTH_REQUESTS, proc[p].args.authRequestId).expires_at

\* the owning client's poll of the request answers expired
PollExpired(authRequestId) ==
  \/ ~KvHas(AUTH_REQUESTS, authRequestId)
  \/ PollOwn(authRequestId) = Returned([status |-> "expired"])

ExpiredWhateverStatus ==
  \A authRequestId \in DOMAIN AUTH_REQUESTS :
    (KvGet(AUTH_REQUESTS, authRequestId).expires_at < now)
    => PollOwn(authRequestId) = [ok |-> TRUE, body |-> [status |-> "expired"]]

\* C17: for a stored request with expires_at < now, pollAuthorization by the
\* owning client answers {status: expired}, without a code, whether the
\* stored status is pending, authorized or denied; and once the poll of a
\* request answers expired it answers expired from then on.
C17_ExpiredStaysExpired ==
  [][/\ ExpiredWhateverStatus'
     /\ \A authRequestId \in DOMAIN hist.initScopes :
          PollExpired(authRequestId) => PollExpired(authRequestId)'
    ]_vars

\* a poll by the owning client of a request that is stored as authorized,
\* with its code, and whose expires_at has passed has answered expired
C17_Witness ==
  \E p \in Procs :
    /\ Succeeded(p, "poll")
    /\ proc[p].response = Returned([status |-> "expired"])
    /\ KvHas(AUTH_REQUESTS, proc[p].args.authRequestId)
    /\ KvGet(AUTH_REQUESTS, proc[p].args.authRequestId).status = "authorized"
    /\ "code" \in DOMAIN KvGet(AUTH_REQUESTS, proc[p].args.authRequestId)
    /\ KvGet(AUTH_REQUESTS, proc[p].args.authRequestId).client_id = proc[p].args.clientId
    /\ KvGet(AUTH_REQUESTS, proc[p].args.authRequestId).expires_at < now

\* C18: pollAuthorization only reads: whatever it answers, AUTH_REQUESTS,
\* MAGIC_LINK_TOKENS, auth_codes and refresh_tokens are as before, and a
\* second poll with the same arguments in the state and at the clock value
\* the first one left answers what the first one answered.
C18_PollIsPureRead ==
  [][\A p \in Procs, authRequestId \in Ids, clientId \in Clients :
       Poll(p, authRequestId, clientId) =>
         /\ UNCHANGED << AUTH_REQUESTS, MAGIC_LINK_TOKENS, auth_codes, refresh_tokens >>
         /\ UNCHANGED << now, nextId, nextToken >>
         /\ pollAuthorization(authRequestId, clientId)' = proc'[p].response
         /\ \A q \in Procs :
              (/\ proc[q].pc = "done" /\ proc[q].op = "poll"
               /\ proc[q].args = [authRequestId |-> authRequestId, clientId |-> clientId]
               /\ proc[q].response = pollAuthorization(authRequestId, clientId))
              => proc'[p].response = proc[q].response
    ]_vars

\* two polls with the same arguments have answered pending, with the same
\* expires_in, and the request is stored as init stored it
C18_Witness ==
  \E p, q \in Procs :
    /\ p # q
    /\ Succeeded(p, "poll") /\ Succeeded(q, "poll")
    /\ proc[p].args = proc[q].args
    /\ proc[p].response = proc[q].response
    /\ proc[p].response.body.status = "pending"
    /\ KvHas(AUTH_REQUESTS, proc[p].args.authRequestId)
    /\ KvGet(AUTH_REQUESTS, proc[p].args.authRequestId).status = "pending"

\* C19: in every state of AUTH_REQUESTS, under any interleaving of init and
\* confirm and any answers of the directory, a stored request has a code if
\* and only if its status is authorized.
C19_CodeIffAuthorized ==
  \A authRequestId \in DOMAIN AUTH_REQUESTS :
    ("code" \in DOMAIN KvGet(AUTH_REQUESTS, authRequestId))
      <=> (KvGet(AUTH_REQUESTS, authRequestId).status = "authorized")

\* C20: the used flag of an auth_codes row only moves from 0 to 1: a row is
\* inserted with used = 0, no step of any operation removes a row or takes
\* used from 1 back to 0, and exchangeCodeForTokens does not accept a row
\* with used = 1: it fails with invalid_grant on the lookup.
C20_UsedIsMonotonic ==
  [][/\ \A code \in DOMAIN auth_codes :
          /\ code \in DOMAIN auth_codes'
          /\ auth_codes[code].used = 1 => auth_codes'[code].used = 1
     /\ \A code \in DOMAIN auth_codes' \ DOMAIN auth_codes : auth_codes'[code].used = 0
     /\ \A p \in Procs, code \in Ids, codeVerifier \in Verifiers, clientId \in Clients :
          (/\ ExchangeSelect(p, code, codeVerifier, clientId)
           /\ code \in DOMAIN auth_codes
           /\ auth_codes[code].used = 1)
          => /\ proc'[p] = Done("exchange", [code |-> code],
                                Failed("invalid_grant",
                                       "Invalid or used authorization code"))
             /\ UNCHANGED stores
    ]_vars

\* an exchange with the right verifier and client_id of a row that has
\* used = 1 and has not expired has failed on the lookup
C20_Witness ==
  \E p \in Procs :
    /\ FailedWith(p, "exchange", "Invalid or used authorization code")
    /\ proc[p].args.code \in DOMAIN auth_codes
    /\ auth_codes[proc[p].args.code].used = 1
    /\ now <= auth_codes[proc[p].args.code].expires_at

\* C21: expiry is enforced by comparing timestamps at read time, also when
\* the store has not evicted the key: a confirmAuthorization that finds the
\* token and the request in the store, on a request whose expires_at is
\* already in the past, does not insert an authorization code and does not
\* store the request as authorized.  (An authorization takes no time here,
\* so expires_at < now at the insert means it was so when confirm was called.)
C21_ConfirmEnforcesExpiry ==
  [][\A p \in Procs :
       (ConfirmInsertCode(p) \/ ConfirmPutAuthorized(p))
         => now <= proc[p].authRequest.expires_at
    ]_vars

\* the scope each method requires
ClaimedScope(method) ==
  CASE method = "scp.get_orders" -> "orders"
    [] method = "scp.get_loyalty" -> "loyalty"
    [] method = "scp.get_offers" -> "offers"
    [] method = "scp.get_preferences" -> "preferences"
    [] method = "scp.create_intent" -> "intent:create"
    [] method = "scp.get_intents" -> "intent:read"
    [] method = "scp.update_intent" -> "intent:write"
    [] method = "scp.fulfill_intent" -> "intent:write"

Granted(accessToken, scope) ==
  \E i \in DOMAIN ClaimsOfJWT(accessToken).scopes :
    ClaimsOfJWT(accessToken).scopes[i] = scope

\* C22: for each of the eight routed methods, handleRPCRequest invokes the
\* data operation only if the scope the method requires is among the scopes
\* of the token: without it the call returns no result but the error -32001
\* whose message names the missing scope, and the intent activity logs are
\* unchanged.
C22_ScopeGatesMethod ==
  [][\A p \in Procs :
       RpcCall(p) =>
         LET request == proc'[p].args.request
             response == proc'[p].response
         IN  (/\ request.method \in Methods
              /\ ~Granted(proc'[p].args.accessToken, ClaimedScope(request.method)))
             => /\ "result" \notin DOMAIN response
                /\ "error" \in DOMAIN response
                /\ response.error.code = -32001
                /\ response.error.message
                     = missingScopeMessage(ClaimedScope(request.method))
                /\ MOCK_INTENTS' = MOCK_INTENTS
    ]_vars

\* with intents in the log, fulfill_intent has been refused to a token
\* without intent:write, and served to the token with it
C22_Witness ==
  /\ MOCK_INTENTS # EmptyMap
  /\ \E p \in Procs :
       /\ proc[p].pc = "done" /\ proc[p].op = "rpc"
       /\ proc[p].args.request.method = "scp.fulfill_intent"
       /\ Granted(proc[p].args.accessToken, "intent:create")
       /\ "error" \in DOMAIN proc[p].response
       /\ proc[p].response.error.code = -32001
  /\ \E customerId \in DOMAIN MOCK_INTENTS :
       \E i \in DOMAIN MOCK_INTENTS[customerId] :
         /\ "status" \in DOMAIN MOCK_INTENTS[customerId][i].data
         /\ MOCK_INTENTS[customerId][i].data.status = "fulfilled"

\* C23: with a valid access token, a method name outside the table of eight
\* gets the error -32601 (method not found) whatever the scopes of the
\* token, and no data operation: no result, the activity logs unchanged.
C23_UnknownMethodNotFound ==
  [][\A p \in Procs :
       RpcCall(p) =>
         LET request == proc'[p].args.request
             response == proc'[p].response
         IN  (/\ request.method \notin
                   {"scp.get_orders", "scp.get_loyalty", "scp.get_offers",
                    "scp.get_preferences", "scp.create_intent", "scp.get_intents",
                    "scp.update_intent", "scp.fulfill_intent"}
              /\ verifyJWT(proc'[p].args.accessToken, JWT_SECRET).ok)
             => /\ "result" \notin DOMAIN response
                /\ "error" \in DOMAIN response
                /\ response.error.code = -32601
                /\ MOCK_INTENTS' = MOCK_INTENTS
    ]_vars

\* an unknown method has been refused to the token with the scope orders
C23_Witness ==
  \E p \in Procs :
    /\ proc[p].pc = "done" /\ proc[p].op = "rpc"
    /\ proc[p].args.request.method = "scp.unknown"
    /\ Granted(proc[p].args.accessToken, "orders")
    /\ "error" \in DOMAIN proc[p].response
    /\ proc[p].response.error.code = -32601

\* C24: handleRPCRequest lets no exception escape: for every request and
\* every access token (valid, expired, malformed, wrongly signed) and every
\* failure of the routed method, it returns an envelope whose id is the id of
\* the request and that has exactly one of result and error.
C24_EnvelopeAlways ==
  \A p \in Procs :
    (proc[p].pc = "done" /\ proc[p].op = "rpc") =>
      /\ DOMAIN proc[p].response \in {{"jsonrpc", "id", "result"}, {"jsonrpc", "id", "error"}}
      /\ proc[p].response.id = proc[p].args.request.id

\* the request r2 has been answered with an error for an expired token and
\* for a token signed with another secret, and with a result
C24_Witness ==
  \E p, q \in Procs :
    /\ proc[p].pc = "done" /\ proc[p].op = "rpc"
    /\ proc[p].args.request.id = "r2"
    /\ "error" \in DOMAIN proc[p].response
    /\ proc[p].response.error.message = "JWT expired"
    /\ proc[q].pc = "done" /\ proc[q].op = "rpc"
    /\ proc[q].args.request.id = "r2"
    /\ "error" \in DOMAIN proc[q].response
    /\ proc[q].response.error.message = "Invalid JWT signature"

\* a token that fails verification under the server's secret at any time:
\* wrong number of parts, signature mismatch, or a payload that does not decode
NeverVerifies(token) ==
  \/ Len(token) # 3
  \/ token[3] # sign(<< token[1], token[2] >>, JWT_SECRET)
  \/ base64urlDecode(token[2])[1] # "json"

\* C25: every failure of access-token verification in handleRPCRequest
\* (wrong number of parts, signature mismatch, undecodable payload, expired)
\* is reported under one and the same error code, and an application-level
\* failure (missing scope, unknown method, handler error) is never reported
\* under that code: a call that fails verification gets the code of any
\* earlier call whose token cannot verify, and a call that passes
\* verification and fails gets another code.
C25_OneCodeForVerification ==
  [][\A p, q \in Procs :
       (/\ RpcCall(p) /\ q # p
        /\ proc[q].pc = "done" /\ proc[q].op = "rpc"
        /\ NeverVerifies(proc[q].args.accessToken))
       => LET verified == verifyJWT(proc'[p].args.accessToken, JWT_SECRET)
              response == proc'[p].response
          IN  /\ ~verified.ok => response.error.code = proc[q].response.error.code
              /\ (verified.ok /\ "error" \in DOMAIN response)
                   => response.error.code # proc[q].response.error.code
    ]_vars

\* invocation p takes the step of a call of verifyAccessToken
VerifyCall(p) ==
  /\ proc'[p].pc = "done" /\ proc'[p].op = "verify"
  /\ Verify(p, proc'[p].args.token, proc'[p].args.secret)

\* a three-part token whose payload decodes and has an exp in the past
PastExp(token) ==
  /\ Len(token) = 3
  /\ base64urlDecode(token[2])[1] = "json"
  /\ "exp" \in DOMAIN ClaimsOfJWT(token)
  /\ ClaimsOfJWT(token).exp # 0
  /\ ClaimsOfJWT(token).exp < now

\* C26: a token whose exp is in the past fails verification with the expiry
\* error, whether or not its signature is valid for the verifying secret.
C26_ExpiredWhateverSignature ==
  [][\A p \in Procs :
       (VerifyCall(p) /\ PastExp(proc'[p].args.token))
         => proc'[p].response = Thrown(0, "JWT expired")
    ]_vars

\* C26, amended: a three-part token whose payload has a non-zero exp in the
\* past fails verification: with the expiry error when its signature is
\* valid for the verifying secret, with the signature error when it is not.
C26_ExpiredOrSignatureError ==
  [][\A p \in Procs :
       (VerifyCall(p) /\ PastExp(proc'[p].args.token))
         => LET token == proc'[p].args.token IN
              proc'[p].response =
                IF token[3] = sign(<< token[1], token[2] >>, proc'[p].args.secret)
                THEN Thrown(0, "JWT expired")
                ELSE Thrown(0, "Invalid JWT signature")
    ]_vars

\* of two tokens past their exp, one has failed with the expiry error and
\* one, verified under another secret than its own, with the signature error
C26_Witness ==
  \E p, q \in Procs :
    /\ proc[p].pc = "done" /\ proc[p].op = "verify"
    /\ PastExp(proc[p].args.token)
    /\ proc[p].response = Thrown(0, "JWT expired")
    /\ proc[q].pc = "done" /\ proc[q].op = "verify"
    /\ PastExp(proc[q].args.token)
    /\ proc[q].response = Thrown(0, "Invalid JWT signature")

\* C27: for all claim sets and all secrets S1 # S2, a token created with S1
\* fails verification under S2, and a token created with S that has not
\* expired verifies under S and yields exactly the claims that were signed:
\* sub, email, scopes, type, iat and exp = iat + 3600.
C27_VerifyInvertsCreate ==
  [][\A p \in Procs :
       VerifyCall(p) =>
         \A scopes \in {<< "orders" >>, << "orders", "loyalty" >>}, S \in Secrets :
           (proc'[p].args.token
              = createJWT(tokenPayload(customerIdOf(Customer), Customer, scopes, 0), S))
           => /\ S # proc'[p].args.secret => ~proc'[p].response.ok
              /\ (S = proc'[p].args.secret /\ now <= 12)
                   => /\ proc'[p].response.ok
                      /\ proc'[p].response.payload =
                           [sub |-> customerIdOf(Customer), email |-> Customer,
                            scopes |-> scopes, type |-> "access_token",
                            iat |-> 0, exp |-> 12]
    ]_vars

\* a token created with S2 has verified under S2, and the token of the same
\* claims created with S1 has failed under S2
C27_Witness ==
  \E p, q \in Procs :
    /\ Succeeded(p, "verify")
    /\ proc[p].args.secret = "S2"
    /\ proc[p].args.token = issuedToken(<< "orders", "loyalty" >>, "S2")
    /\ proc[q].pc = "done" /\ proc[q].op = "verify" /\ ~proc[q].response.ok
    /\ proc[q].args.secret = "S2"
    /\ proc[q].args.token = issuedToken(<< "orders", "loyalty" >>, "S1")

\* C28: verification rejects every token whose header names another
\* algorithm than HS256, also when the signature over header.payload is a
\* correct HMAC under the verifying secret.
C28_OtherAlgorithmRejected ==
  [][\A p \in Procs :
       (/\ VerifyCall(p)
        /\ Len(proc'[p].args.token) = 3
        /\ base64urlDecode(proc'[p].args.token[1])[2].alg # "HS256")
         => ~proc'[p].response.ok
    ]_vars

\* the code was minted by a confirm of a request that init received with
\* scopes = [orders]
OrdersOnly(code) ==
  /\ code \in DOMAIN hist.codeRequest
  /\ hist.initScopes[hist.codeRequest[code]] = << "orders" >>

StatusUpdates(log, intentId) ==
  {i \in DOMAIN log :
     /\ log[i].action = "scp_intent_updated"
     /\ "intent_id" \in DOMAIN log[i].data /\ log[i].data.intent_id = intentId
     /\ "status" \in DOMAIN log[i].data /\ log[i].data.status # ""}

Last(indices) == CHOOSE i \in indices : \A j \in indices : j <= i

\* the created activities of the intent
Creations(log, intentId) ==
  {i \in DOMAIN log :
     /\ log[i].action = "scp_intent_created"
     /\ "intent_id" \in DOMAIN log[i].data /\ log[i].data.intent_id = intentId}

\* a call of get_intents without a status filter
ReadsIntents(p) ==
  /\ RpcCall(p)
  /\ proc'[p].args.request.method = "scp.get_intents"
  /\ "status" \notin DOMAIN proc'[p].args.request.params
  /\ "result" \in DOMAIN proc'[p].response

\* C30: for every activity log, the status and updated_at of an intent that
\* get_intents reconstructs are those of the last update activity in log
\* order that carries a status, or 'created' and the creation timestamp when
\* no update carries one; a later update without a status changes neither.
C30_LastStatusInLog ==
  [][\A p \in Procs :
       ReadsIntents(p) =>
         LET log == getIntents(MOCK_INTENTS, ClaimsOfJWT(proc'[p].args.accessToken).sub)
             intents == proc'[p].response.result.intents
         IN  \A k \in DOMAIN intents :
               LET updates == StatusUpdates(log, intents[k].intent_id) IN
                 IF updates = {}
                 THEN /\ intents[k].status = "created"
                      /\ intents[k].updated_at = intents[k].created_at
                 ELSE /\ intents[k].status = log[Last(updates)].data.status
                      /\ intents[k].updated_at = log[Last(updates)].timestamp
    ]_vars

\* C30, amended: the status and updated_at of an intent that get_intents
\* reconstructs are those of the last update activity that comes after the
\* last created activity of the intent in log order and carries a status,
\* or 'created' and the timestamp of that created activity when no such
\* update carries one; a later update without a status changes neither.
C30_LastStatusSinceCreation ==
  [][\A p \in Procs :
       ReadsIntents(p) =>
         LET log == getIntents(MOCK_INTENTS, ClaimsOfJWT(proc'[p].args.accessToken).sub)
             intents == proc'[p].response.result.intents
         IN  \A k \in DOMAIN intents :
               LET created == Last(Creations(log, intents[k].intent_id))
                   updates == {i \in StatusUpdates(log, intents[k].intent_id) : i > created}
               IN  /\ intents[k].created_at = log[created].timestamp
                   /\ IF updates = {}
                      THEN /\ intents[k].status = "created"
                           /\ intents[k].updated_at = log[created].timestamp
                      ELSE /\ intents[k].status = log[Last(updates)].data.status
                           /\ intents[k].updated_at = log[Last(updates)].timestamp
    ]_vars

\* get_intents has answered with the status and the time of an update that
\* an update without a status follows, later, at the end of the log
C30_Witness ==
  \E p \in Procs :
    /\ proc[p].pc = "done" /\ proc[p].op = "rpc"
    /\ proc[p].args.request.method = "scp.get_intents"
    /\ "result" \in DOMAIN proc[p].response
    /\ LET log == getIntents(MOCK_INTENTS, ClaimsOfJWT(proc[p].args.accessToken).sub)
           intents == proc[p].response.result.intents
       IN  /\ Len(log) = 3 /\ Len(intents) = 1
           /\ log[3].action = "scp_intent_updated"
           /\ "status" \notin DOMAIN log[3].data
           /\ "intent_id" \in DOMAIN log[3].data
           /\ log[3].data.intent_id = intents[1].intent_id
           /\ log[2].timestamp < log[3].timestamp
           /\ intents[1].status = "active"
           /\ intents[1].updated_at = log[2].timestamp
           /\ intents[1].created_at < intents[1].updated_at

\* invocation p is answered by the token endpoint with the failure of an
\* authorization_code exchange
ExchangeFails(p) ==
  /\ Ready(p) /\ proc'[p] # proc[p]
  /\ proc'[p].pc = "done" /\ proc'[p].op = "exchange"
  /\ ~proc'[p].response.ok

\* what the token endpoint answers to the exchange of a code that was never
\* inserted (no identifier is 0)
NeverExisted ==
  Failed("invalid_grant",
         exchangeValidation(0, CHOOSE v \in Verifiers : TRUE, CHOOSE c \in Clients : TRUE))

\* C31: the answer to the exchange of a code that existed and has expired
\* or was already used equals, in every field, the answer to the exchange
\* of a code that never existed.
C31_ExistenceNotLeaked ==
  [][\A p \in Procs :
       ExchangeFails(p) =>
         LET code == proc'[p].args.code IN
           (/\ code \in DOMAIN auth_codes
            /\ auth_codes[code].used = 1 \/ auth_codes[code].expires_at < now)
             => proc'[p].response = NeverExisted
    ]_vars

\* the throws of the validation steps that follow the lookup of the row
ValidationFailures ==
  {"Authorization code expired", "Invalid client_id", "Invalid code_verifier"}

\* C32: an exchangeCodeForTokens call that fails a validation step (code
\* expired, client_id mismatch, PKCE mismatch) leaves the durable store
\* unchanged: the code row keeps used = 0 and no refresh token row is
\* inserted, so that an exchange of the same code with the row's client_id
\* and a verifier of its challenge, before expiry, passes every validation.
C32_FailedValidationChangesNothing ==
  [][\A p \in Procs :
       (ExchangeFails(p) /\ proc'[p].response.error_description \in ValidationFailures)
         => /\ stores' = stores
            /\ \E code \in DOMAIN auth_codes :
                 /\ code = proc'[p].args.code
                 /\ auth_codes'[code].used = 0
                 /\ auth_codes[code].expires_at >= now
                      => \A codeVerifier \in Verifiers :
                           verifyPKCE(codeVerifier, auth_codes[code].code_challenge)
                             => (exchangeValidation(code, codeVerifier,
                                                    auth_codes[code].client_id) = "")'
    ]_vars

\* an exchange has failed on the verifier, the code is still unused, and then
\* an exchange of the same code has returned tokens
C32_Witness ==
  \E p, q \in Procs :
    /\ FailedWith(p, "exchange", "Invalid code_verifier")
    /\ Succeeded(q, "exchange")
    /\ proc[q].args.code = proc[p].args.code
    /\ auth_codes[proc[p].args.code].expires_at >= now
    /\ auth_codes[proc[p].args.code].used = 1

\* the update activities of the intent in a log
UpdatesOf(log, intentId) ==
  {i \in DOMAIN log :
     /\ log[i].action = "scp_intent_updated"
     /\ "intent_id" \in DOMAIN log[i].data /\ log[i].data.intent_id = intentId}

\* the k-th of a set of positions, in log order
Nth(indices, k) == CHOOSE i \in indices : Cardinality({j \in indices : j <= i}) = k

\* the milestones after 'created' are the update activities at the given
\* positions of the log, each once, in log order
MilestonesAre(intent, log, indices) ==
  /\ Len(intent.milestones) = 1 + Cardinality(indices)
  /\ intent.milestones[1].event = "created"
  /\ \A k \in 1..Cardinality(indices) :
       /\ intent.milestones[k + 1].event = "updated"
       /\ intent.milestones[k + 1].timestamp = log[Nth(indices, k)].timestamp
       /\ intent.milestones[k + 1].details = log[Nth(indices, k)].data

\* C33: for every activity log of a customer, each update activity for
\* intent X that appears after a created activity for X in the log appears
\* exactly once among X's reconstructed milestones, after the 'created'
\* milestone and in log order; update activities for an intent_id with no
\* earlier created activity produce no intent.
C33_UpdatesAfterACreation ==
  [][\A p \in Procs :
       ReadsIntents(p) =>
         LET log == getIntents(MOCK_INTENTS, ClaimsOfJWT(proc'[p].args.accessToken).sub)
             intents == proc'[p].response.result.intents
         IN  \A k \in DOMAIN intents :
               /\ Creations(log, intents[k].intent_id) # {}
               /\ MilestonesAre(intents[k], log,
                    {i \in UpdatesOf(log, intents[k].intent_id) :
                       \E c \in Creations(log, intents[k].intent_id) : c < i})
    ]_vars

\* C33, amended: each update activity for intent X that appears after the
\* last created activity for X in the log appears exactly once among X's
\* reconstructed milestones, after the 'created' milestone and in log order;
\* update activities for an intent_id with no earlier created activity
\* produce no intent.
C33_UpdatesAfterLastCreation ==
  [][\A p \in Procs :
       ReadsIntents(p) =>
         LET log == getIntents(MOCK_INTENTS, ClaimsOfJWT(proc'[p].args.accessToken).sub)
             intents == proc'[p].response.result.intents
         IN  /\ \A k \in DOMAIN intents :
                  /\ Creations(log, intents[k].intent_id) # {}
                  /\ MilestonesAre(intents[k], log,
                       {i \in UpdatesOf(log, intents[k].intent_id) :
                          i > Last(Creations(log, intents[k].intent_id))})
             /\ \A i \in DOMAIN log :
                  "intent_id" \in DOMAIN log[i].data
                    => (Creations(log, log[i].data.intent_id) = {}
                          => \A k \in DOMAIN intents :
                               intents[k].intent_id # log[i].data.intent_id)
    ]_vars

\* get_intents has answered with an intent of two update milestones in log
\* order, the first of an update with a status, the second of one without
C33_Witness ==
  \E p \in Procs :
    /\ proc[p].pc = "done" /\ proc[p].op = "rpc"
    /\ proc[p].args.request.method = "scp.get_intents"
    /\ "result" \in DOMAIN proc[p].response
    /\ LET intents == proc[p].response.result.intents
       IN  /\ Len(intents) = 1
           /\ Len(intents[1].milestones) = 3
           /\ intents[1].milestones[2].timestamp < intents[1].milestones[3].timestamp
           /\ "status" \in DOMAIN intents[1].milestones[2].details
           /\ "status" \notin DOMAIN intents[1].milestones[3].details

\* the stored requests that are authorized with a code
AuthorizedRequests ==
  {KvGet(AUTH_REQUESTS, authRequestId) :
     authRequestId \in {id \in DOMAIN AUTH_REQUESTS :
                          /\ KvGet(AUTH_REQUESTS, id).status = "authorized"
                          /\ "code" \in DOMAIN KvGet(AUTH_REQUESTS, id)}}

\* C34: in every reachable state, if an AuthorizationRequest has status =
\* authorized with code c, then auth_codes holds a row for c whose
\* customer_email, client_id, scopes and code_challenge equal those of the
\* request; and the code of every authorized answer of a poll is the code
\* of a row of auth_codes.
C34_AuthorizedHasCodeRow ==
  /\ \A authRequest \in AuthorizedRequests :
       /\ authRequest.code \in DOMAIN auth_codes
       /\ auth_codes[authRequest.code].customer_email = authRequest.email
       /\ auth_codes[authRequest.code].client_id = authRequest.client_id
       /\ JSONparse(auth_codes[authRequest.code].scopes) = authRequest.scopes
       /\ auth_codes[authRequest.code].code_challenge = authRequest.code_challenge
  /\ \A p \in Procs :
       (Succeeded(p, "poll") /\ proc[p].response.body.status = "authorized")
         => proc[p].response.body.code \in DOMAIN auth_codes

\* a poll has answered authorized with the code of a stored request while a
\* second confirm of that request has inserted a code of its own
C34_Witness ==
  \E p \in Procs, authRequest \in AuthorizedRequests :
    /\ Succeeded(p, "poll") /\ proc[p].response.body.status = "authorized"
    /\ proc[p].response.body.code = authRequest.code
    /\ \E c \in DOMAIN auth_codes :
         c # authRequest.code /\ hist.codeRequest[c] = authRequest.id

\* C35: an AuthorizationRequest's status only moves forward: a request
\* persisted as denied is never later persisted as authorized, and a request
\* persisted as authorized is never later persisted as denied or pending.
C35_StatusOnlyForward ==
  [][\A authRequestId \in DOMAIN AUTH_REQUESTS \cap DOMAIN AUTH_REQUESTS' :
       /\ KvGet(AUTH_REQUESTS, authRequestId).status = "denied"
            => KvGet(AUTH_REQUESTS', authRequestId).status # "authorized"
       /\ KvGet(AUTH_REQUESTS, authRequestId).status = "authorized"
            => KvGet(AUTH_REQUESTS', authRequestId).status = "authorized"
    ]_vars

\* invocation p returns from refreshAccessToken with tokens
RefreshReturns(p) ==
  /\ proc[p].pc = "refresh_update"
  /\ proc'[p].pc = "done" /\ proc'[p].op = "refresh" /\ proc'[p].response.ok

\* C36: every refresh_token value returned by a successful
\* refreshAccessToken call is the token of a row of refresh_tokens at the
\* moment the call returns, whatever refreshAccessToken or revokeToken on
\* the same old token the call is interleaved with.
C36_ReturnedTokenIsInstalled ==
  [][\A p \in Procs :
       RefreshReturns(p) =>
         /\ proc'[p].response.body.refresh_token \in DOMAIN refresh_tokens'
         /\ refresh_tokens'[proc'[p].response.body.refresh_token].token
              = proc'[p].response.body.refresh_token
    ]_vars

\* invocation p is answered with the failure of a refresh
RefreshFails(p) ==
  /\ Ready(p) /\ proc'[p] # proc[p]
  /\ proc'[p].pc = "done" /\ proc'[p].op = "refresh" /\ ~proc'[p].response.ok

\* the columns of refresh_tokens that a refresh is to leave alone
GrantColumns ==
  {"customer_email", "cordial_contact_id", "client_id", "scopes", "expires_at",
   "created_at"}

\* C37: refreshAccessToken changes only the token and last_used columns of
\* the one matched row: the number of rows, every other row, and the row's
\* customer_email, customer id, client_id, scopes and expires_at are
\* unchanged, so every row expires 30 days after the exchange that inserted
\* it, however often it was refreshed; a refresh that fails (unknown token,
\* expired, client_id mismatch) changes nothing.
C37_RefreshChangesTokenOnly ==
  [][\A p \in Procs :
       /\ RefreshReturns(p) =>
            /\ UNCHANGED << AUTH_REQUESTS, MAGIC_LINK_TOKENS, auth_codes >>
            /\ Cardinality(DOMAIN refresh_tokens') = Cardinality(DOMAIN refresh_tokens)
            /\ \A t \in DOMAIN refresh_tokens \ {proc[p].refreshToken} :
                 t \in DOMAIN refresh_tokens' /\ refresh_tokens'[t] = refresh_tokens[t]
            /\ proc[p].refreshToken \in DOMAIN refresh_tokens =>
                 /\ proc[p].newRefreshToken \in DOMAIN refresh_tokens'
                 /\ \A column \in GrantColumns :
                      refresh_tokens'[proc[p].newRefreshToken][column]
                        = refresh_tokens[proc[p].refreshToken][column]
            /\ \A t \in DOMAIN refresh_tokens' :
                 refresh_tokens'[t].expires_at
                   = refresh_tokens'[t].created_at + RefreshTokenTtl
       /\ RefreshFails(p) => stores' = stores
    ]_vars

\* a refresh token that a refresh installed is refused as expired, thirty
\* days after the exchange of its grant
C37_Witness ==
  \E p \in Procs :
    /\ FailedWith(p, "refresh", "Refresh token expired")
    /\ proc[p].args.refreshToken \in DOMAIN refresh_tokens
    /\ refresh_tokens[proc[p].args.refreshToken].last_used # NULL
    /\ refresh_tokens[proc[p].args.refreshToken].created_at + RefreshTokenTtl < now

\* the codes that an invocation in flight has marked used and has not yet
\* inserted the refresh token of
BeingRedeemed == {proc[p].code : p \in {q \in Procs : proc[q].pc = "exchange_insertToken"}}

\* C38: every exchangeCodeForTokens invocation that ends in failure, a
\* failure of a store operation after validation included, leaves the code
\* redeemable: whenever a code row has used = 1 and no invocation is between
\* its UPDATE and its INSERT for that code, an exchange of the code has
\* inserted a refresh_tokens row and returned.
C38_UsedCodeHasTokenRow ==
  \A code \in DOMAIN auth_codes :
    (auth_codes[code].used = 1 /\ code \notin BeingRedeemed) => code \in hist.redeemed

\* a confirm that inserted the code has returned successfully
ConfirmedWith(code) ==
  \E p \in Procs : /\ Succeeded(p, "confirm") /\ proc[p].args.authCode = code

\* a poll has answered authorized with the code
PolledWith(code) ==
  \E p \in Procs : /\ Succeeded(p, "poll")
                   /\ proc[p].response.body.status = "authorized"
                   /\ proc[p].response.body.code = code

\* C39: if the magic link of a pending request is confirmed successfully
\* and the owning client keeps polling with its client_id, all before
\* expires_at, then some poll eventually returns status = authorized with
\* the code that the confirm inserted, and an exchange of that code with
\* the row's client_id and a verifier of its challenge, while it is unused
\* and unexpired, passes every validation.
C39_ConfirmedIsEventuallyPolled ==
  /\ \A code \in 1..MaxIds : ConfirmedWith(code) ~> PolledWith(code)
  /\ [](\A code \in DOMAIN auth_codes :
          (PolledWith(code) /\ auth_codes[code].used = 0
             /\ auth_codes[code].expires_at >= now)
            => \A codeVerifier \in Verifiers :
                 verifyPKCE(codeVerifier, auth_codes[code].code_challenge)
                   => exchangeValidation(code, codeVerifier,
                                         auth_codes[code].client_id) = "")

\* the activity logs with every log but the customer's own erased
OwnLogOnly(customerId) ==
  [c \in DOMAIN MOCK_INTENTS \cap {customerId} |-> MOCK_INTENTS[c]]

\* C40: intent data is isolated per customer.  A call made with sub = B
\* appends to the log of B only and leaves the log of every other customer,
\* and what get_intents would return to it, as they were; and get_intents
\* with a token whose sub is A returns intents of customer A that are built
\* from the log of A alone.
C40_IntentsIsolatedPerCustomer ==
  [][\A p \in Procs :
       RpcCall(p) =>
         LET caller == ClaimsOfJWT(proc'[p].args.accessToken).sub
             request == proc'[p].args.request
         IN  /\ \A c \in DOMAIN MOCK_INTENTS' \ {caller} :
                  /\ c \in DOMAIN MOCK_INTENTS
                  /\ MOCK_INTENTS'[c] = MOCK_INTENTS[c]
                  /\ \A params \in {r.params : r \in TenantRequests} :
                       getIntentsMethod(MOCK_INTENTS', c, params)
                         = getIntentsMethod(MOCK_INTENTS, c, params)
             /\ request.method = "scp.get_intents" =>
                  /\ proc'[p].response.result
                       = getIntentsMethod(OwnLogOnly(caller), caller, request.params)
                  /\ \A k \in DOMAIN proc'[p].response.result.intents :
                       proc'[p].response.result.intents[k].customer_id = caller
    ]_vars

\* get_intents has answered a customer with its intent as created, with the
\* milestone of its own later update, after another customer has updated
\* the same intent_id to active in between
C40_Witness ==
  \E p \in Procs, a, b \in DOMAIN MOCK_INTENTS :
    /\ a # b
    /\ proc[p].pc = "done" /\ proc[p].op = "rpc"
    /\ proc[p].args.request.method = "scp.get_intents"
    /\ ClaimsOfJWT(proc[p].args.accessToken).sub = a
    /\ "result" \in DOMAIN proc[p].response
    /\ Len(MOCK_INTENTS[a]) = 2 /\ Len(MOCK_INTENTS[b]) = 1
    /\ MOCK_INTENTS[a][1].action = "scp_intent_created"
    /\ MOCK_INTENTS[b][1].action = "scp_intent_updated"
    /\ MOCK_INTENTS[b][1].data.intent_id = MOCK_INTENTS[a][1].data.intent_id
    /\ "status" \in DOMAIN MOCK_INTENTS[b][1].data
    /\ MOCK_INTENTS[a][1].timestamp < MOCK_INTENTS[b][1].timestamp
    /\ MOCK_INTENTS[b][1].timestamp < MOCK_INTENTS[a][2].timestamp
    /\ LET intents == proc[p].response.result.intents
       IN  /\ Len(intents) = 1
           /\ intents[1].status = "created"
           /\ Len(intents[1].milestones) = 2
           /\ intents[1].milestones[2].timestamp = MOCK_INTENTS[a][2].timestamp

=============================================================================
